---- MODULE Spec2Model ----
(***************************************************************************)
(* Model of the ccswitch-core provider service: the providers table of the *)
(* SQLite store, the device-local settings overlay (file and process-wide  *)
(* cache), the live configuration files of the target applications, and    *)
(* ProviderService::{current, add, update, delete, switch}.                *)
(*                                                                         *)
(* Strings are sequences of tokens (<<"api", "_key">> is the text          *)
(* api_key), JSON values are tagged records [t, v], and an Option is       *)
(* either None or the value itself.                                        *)
(***************************************************************************)
EXTENDS Integers, Sequences, FiniteSets, TLC

VARIABLES store, fs, cache, last, nfaults, focus, added, vin, vout,
          prompts, mcp, svc, aw, race, thr, environ, resolved

vars == <<store, fs, cache, last, nfaults, focus, added, vin, vout,
          prompts, mcp, svc, aw, race, thr, environ, resolved>>

\* The prompts table, the mcp_servers table, the service a run exercises,
\* the atomic_write call in progress and two such calls of two processes.
ext == <<prompts, mcp, svc, aw, race, thr, environ, resolved>>

\* Number of statements that fail (or at which the process dies) in one
\* behaviour.
MaxFaults == 1

-----------------------------------------------------------------------------
\* serde_json::Value and Option

None == [t |-> "none", v |-> <<>>]
JNull == [t |-> "null", v |-> <<>>]
JNum == [t |-> "num", v |-> <<"1">>]
JStr(s) == [t |-> "str", v |-> s]
JObj(f) == [t |-> "obj", v |-> f]
EmptyObj == [t |-> "obj", v |-> <<>>]

\* Value::get(key): None unless the value is an object that has the key.
Get(val, key) ==
    IF val.t = "obj"
    THEN IF key \in DOMAIN val.v THEN val.v[key] ELSE None
    ELSE None

\* Value::as_str: the string, or None for every other kind of value.
as_str(val) == IF val.t = "str" THEN val ELSE None

\* Option<&str>::map(|s| !s.is_empty()).unwrap_or(false)
non_empty_or_false(opt) == IF opt.t = "str" THEN Len(opt.v) > 0 ELSE FALSE

\* Option<&str>::unwrap_or("")
unwrap_or_empty(opt) == IF opt.t = "str" THEN opt.v ELSE <<>>

\* str::contains(pat)
Contains(s, pat) ==
    \E i \in 1..(Len(s) - Len(pat) + 1) : SubSeq(s, i, i + Len(pat) - 1) = pat

-----------------------------------------------------------------------------
\* JSON text.  A text is a sequence of tokens; the punctuation of JSON, and
\* every word of a string, is one token.

\* The keys of the objects, in the order of the map serde_json keeps them in.
KeyOrder ==
    <<"ANTHROPIC_API_KEY", "ANTHROPIC_AUTH_TOKEN", "apiKey", "auth", "command",
      "config", "env", "m1", "m2", "mcpServers", "mcp_servers", "model", "theme">>

\* A quote or a backslash inside a string is written behind a backslash.
RECURSIVE escape(_)
escape(s) ==
    IF s = <<>> THEN <<>>
    ELSE (IF Head(s) \in {"\"", "\\"} THEN <<"\\", Head(s)>> ELSE <<Head(s)>>)
            \o escape(Tail(s))

\* serde_json::to_string_pretty
RECURSIVE to_string_pretty(_), members(_, _)
to_string_pretty(val) ==
    CASE val.t = "null" -> <<"null">>
      [] val.t = "num" -> val.v
      [] val.t = "str" -> <<"\"">> \o escape(val.v) \o <<"\"">>
      [] val.t = "obj" ->
            IF DOMAIN val.v = {} THEN <<"{", "}">>
            ELSE <<"{">>
                    \o members(val.v, SelectSeq(KeyOrder, LAMBDA k : k \in DOMAIN val.v))
                    \o <<"}">>

members(obj, ks) ==
    IF ks = <<>> THEN <<>>
    ELSE <<"\"", Head(ks), "\"", ":">> \o to_string_pretty(obj[Head(ks)])
            \o (IF Len(ks) > 1 THEN <<",">> ELSE <<>>) \o members(obj, Tail(ks))

\* What a parser returns: the value read and the text behind it, or a failure.
ParseFail == [ok |-> FALSE, val |-> None, rest |-> <<>>]
ParseOk(val, rest) == [ok |-> TRUE, val |-> val, rest |-> rest]

\* The string that began with the quote before s.
RECURSIVE parse_string(_, _)
parse_string(s, acc) ==
    IF s = <<>> THEN ParseFail
    ELSE IF Head(s) = "\"" THEN ParseOk(JStr(acc), Tail(s))
    ELSE IF Head(s) = "\\"
         THEN IF Len(s) < 2 THEN ParseFail
              ELSE parse_string(Tail(Tail(s)), Append(acc, s[2]))
    ELSE parse_string(Tail(s), Append(acc, Head(s)))

RECURSIVE parse_value(_), parse_members(_, _)
parse_value(s) ==
    IF s = <<>> THEN ParseFail
    ELSE CASE Head(s) = "null" -> ParseOk(JNull, Tail(s))
           [] Head(s) = "1" -> ParseOk(JNum, Tail(s))
           [] Head(s) = "\"" -> parse_string(Tail(s), <<>>)
           [] Head(s) = "{" ->
                IF Len(s) >= 2 /\ s[2] = "}" THEN ParseOk(EmptyObj, Tail(Tail(s)))
                ELSE parse_members(Tail(s), <<>>)
           [] OTHER -> ParseFail

\* The members of an object from a key on; of two equal keys the later wins.
parse_members(s, acc) ==
    IF s = <<>> \/ Head(s) # "\"" THEN ParseFail
    ELSE LET k == parse_string(Tail(s), <<>>)
         IN  IF ~k.ok \/ Len(k.val.v) # 1 \/ k.rest = <<>> \/ Head(k.rest) # ":"
             THEN ParseFail
             ELSE LET v == parse_value(Tail(k.rest))
                      obj == (k.val.v[1] :> v.val) @@ acc
                  IN  IF ~v.ok \/ v.rest = <<>> THEN ParseFail
                      ELSE IF Head(v.rest) = "," THEN parse_members(Tail(v.rest), obj)
                      ELSE IF Head(v.rest) = "}" THEN ParseOk(JObj(obj), Tail(v.rest))
                      ELSE ParseFail

\* The Err of serde_json::from_str
JsonError == [t |-> "error", v |-> <<>>]

\* serde_json::from_str: one value and nothing behind it.
from_str(text) ==
    LET r == parse_value(text)
    IN  IF r.ok /\ r.rest = <<>> THEN r.val ELSE JsonError

-----------------------------------------------------------------------------
\* TOML text.  A toml::Value is written like a serde_json::Value: a String,
\* an Integer or a Table; there is no null.  A document is lines of
\* key = value and [table.path] headers, each closed by a newline token.

\* json_to_toml
RECURSIVE json_to_toml(_)
json_to_toml(val) ==
    CASE val.t = "null" -> JStr(<<>>)
      [] val.t = "obj" ->
            IF DOMAIN val.v = {} THEN EmptyObj
            ELSE JObj([k \in DOMAIN val.v |-> json_to_toml(val.v[k])])
      [] OTHER -> val

\* toml_to_json
RECURSIVE toml_to_json(_)
toml_to_json(val) ==
    IF val.t = "obj" /\ DOMAIN val.v # {}
    THEN JObj([k \in DOMAIN val.v |-> toml_to_json(val.v[k])])
    ELSE val

\* a.b.c
RECURSIVE dotted(_)
dotted(path) ==
    IF Len(path) <= 1 THEN path ELSE <<Head(path), ".">> \o dotted(Tail(path))

\* toml::to_string_pretty of the table tbl at path: its header unless it
\* holds nothing but tables, its values, then its tables.
RECURSIVE toml_table(_, _), toml_values(_, _), toml_tables(_, _, _)
toml_table(path, tbl) ==
    LET ks == IF DOMAIN tbl = {} THEN <<>>
              ELSE SelectSeq(KeyOrder, LAMBDA k : k \in DOMAIN tbl)
        vals == SelectSeq(ks, LAMBDA k : tbl[k].t # "obj")
        tbls == SelectSeq(ks, LAMBDA k : tbl[k].t = "obj")
    IN  (IF path # <<>> /\ (vals # <<>> \/ tbls = <<>>)
         THEN <<"[">> \o dotted(path) \o <<"]", "\n">> ELSE <<>>)
            \o toml_values(tbl, vals) \o toml_tables(path, tbl, tbls)

toml_values(tbl, ks) ==
    IF ks = <<>> THEN <<>>
    ELSE <<Head(ks), "=">> \o to_string_pretty(tbl[Head(ks)]) \o <<"\n">>
            \o toml_values(tbl, Tail(ks))

toml_tables(path, tbl, ks) ==
    IF ks = <<>> THEN <<>>
    ELSE toml_table(Append(path, Head(ks)), tbl[Head(ks)].v)
            \o toml_tables(path, tbl, Tail(ks))

toml_to_string_pretty(doc) == toml_table(<<>>, doc)

\* The table tbl with a table at path, made if it is not there.
RECURSIVE with_table(_, _)
with_table(tbl, path) ==
    IF path = <<>> THEN tbl
    ELSE LET k == Head(path)
             sub == IF k \in DOMAIN tbl /\ tbl[k].t = "obj" THEN tbl[k].v ELSE <<>>
         IN  (k :> JObj(with_table(sub, Tail(path)))) @@ tbl

\* The table tbl with key = val in its table at path.
RECURSIVE with_value(_, _, _, _)
with_value(tbl, path, key, val) ==
    IF path = <<>> THEN (key :> val) @@ tbl
    ELSE LET k == Head(path)
             sub == IF k \in DOMAIN tbl /\ tbl[k].t = "obj" THEN tbl[k].v ELSE <<>>
         IN  (k :> JObj(with_value(sub, Tail(path), key, val))) @@ tbl

\* The keys of a header up to its closing bracket.
RECURSIVE parse_header(_, _)
parse_header(s, acc) ==
    IF Len(s) < 2 THEN ParseFail
    ELSE IF s[2] = "]" THEN ParseOk(Append(acc, s[1]), Tail(Tail(s)))
    ELSE IF s[2] = "." THEN parse_header(Tail(Tail(s)), Append(acc, s[1]))
    ELSE ParseFail

\* The Err of str::parse::<toml::Value>
TomlError == [t |-> "error", v |-> <<>>]

\* The lines of a document, into the table doc; path is the last header.
RECURSIVE toml_lines(_, _, _)
toml_lines(s, doc, path) ==
    IF s = <<>> THEN JObj(doc)
    ELSE IF Head(s) = "\n" THEN toml_lines(Tail(s), doc, path)
    ELSE IF Head(s) = "["
         THEN LET h == parse_header(Tail(s), <<>>)
              IN  IF ~h.ok \/ (h.rest # <<>> /\ Head(h.rest) # "\n") THEN TomlError
                  ELSE toml_lines(h.rest, with_table(doc, h.val), h.val)
    ELSE IF Len(s) < 3 \/ s[2] # "=" \/ s[3] \notin {"\"", "1"} THEN TomlError
    ELSE LET v == parse_value(Tail(Tail(s)))
         IN  IF ~v.ok \/ (v.rest # <<>> /\ Head(v.rest) # "\n") THEN TomlError
             ELSE toml_lines(v.rest, with_value(doc, path, Head(s), v.val), path)

\* str::parse::<toml::Value>
toml_parse(text) == toml_lines(text, <<>>, <<>>)

-----------------------------------------------------------------------------
\* AppType

Apps == {"claude", "codex", "gemini", "opencode"}

is_additive_mode_never(app) == FALSE

is_additive_mode(app) == app = "opencode"

-----------------------------------------------------------------------------
\* ProviderService::validate_provider_settings

validate_claude_settings(cfg) ==
    LET env == Get(cfg, "env")
        has_api_key == non_empty_or_false(as_str(Get(env, "ANTHROPIC_API_KEY")))
        has_auth_token == non_empty_or_false(as_str(Get(env, "ANTHROPIC_AUTH_TOKEN")))
    IN  ~(~has_api_key /\ ~has_auth_token)

validate_codex_settings_api_key_only(cfg) ==
    LET config == unwrap_or_empty(as_str(Get(cfg, "config")))
        auth == unwrap_or_empty(as_str(Get(cfg, "auth")))
        has_auth_in_config == Contains(config, <<"api", "_key">>)
        has_auth_file == Len(auth) > 0
    IN  ~(~has_auth_in_config /\ ~has_auth_file)

validate_codex_settings(cfg) ==
    LET config == unwrap_or_empty(as_str(Get(cfg, "config")))
        auth == unwrap_or_empty(as_str(Get(cfg, "auth")))
        has_auth_in_config ==
            Contains(config, <<"api", "_key">>) \/ Contains(config, <<"access", "_token">>)
        has_auth_file == Len(auth) > 0
    IN  ~(~has_auth_in_config /\ ~has_auth_file)

validate_gemini_settings(cfg) ==
    non_empty_or_false(as_str(Get(cfg, "apiKey")))

validate_provider_settings_lax(app, cfg) == TRUE

validate_provider_settings(app, cfg) ==
    CASE app = "claude" -> validate_claude_settings(cfg)
      [] app = "codex" -> validate_codex_settings(cfg)
      [] app = "gemini" -> validate_gemini_settings(cfg)
      [] app = "opencode" -> TRUE

-----------------------------------------------------------------------------
\* Database: the providers table, keyed by (app_type, id)

Ids == {"p1", "p2"}

\* Option<String>::None for an id
NoId == "<none>"

NoRow == [present |-> FALSE, settings_config |-> None, is_current |-> 0]

EmptyStore == [a \in Apps |-> [i \in Ids |-> NoRow]]

\* The keys of the map get_all_providers returns.
get_all_providers(db, app) == {i \in Ids : db[app][i].present}

\* providers.get(id).settings_config
provider_of(db, app, id) == [id |-> id, settings_config |-> db[app][id].settings_config]

\* INSERT OR REPLACE names no is_current column: the new row takes DEFAULT 0.
save_provider(db, app, p) ==
    [db EXCEPT ![app][p.id] =
        [present |-> TRUE, settings_config |-> p.settings_config, is_current |-> 0]]

\* DELETE without the id in its WHERE clause
delete_app_rows(db, app, id) == [db EXCEPT ![app] = [i \in Ids |-> NoRow]]

delete_provider(db, app, id) == [db EXCEPT ![app][id] = NoRow]

\* SELECT id ... WHERE app_type = ? AND is_current = 1; query_row(..).ok()
db_get_current_provider(db, app) ==
    LET flagged == {i \in Ids : db[app][i].present /\ db[app][i].is_current = 1}
    IN  IF flagged = {} THEN NoId ELSE CHOOSE i \in flagged : TRUE

clear_current_noop(db, app) == db

\* UPDATE providers SET is_current = 0 without the WHERE clause
clear_current_everywhere(db, app) ==
    [a \in Apps |-> [i \in Ids |-> [db[a][i] EXCEPT !.is_current = 0]]]

\* UPDATE providers SET is_current = 0 WHERE app_type = ?
clear_current(db, app) ==
    [db EXCEPT ![app] = [i \in Ids |-> [@[i] EXCEPT !.is_current = 0]]]

mark_current_skipped(db, app, id) == db

\* UPDATE providers SET is_current = 1 WHERE id = ? AND app_type = ?
mark_current(db, app, id) ==
    [db EXCEPT ![app][id].is_current = IF db[app][id].present THEN 1 ELSE @]

\* Database.conn, a Mutex<Connection> shared by the threads of one process:
\* lock is the thread that holds the guard; sw is a thread in
\* set_current_provider(app, id) and rd a thread in get_current_provider(app).
\* mid records that the query of rd ran between the two statements of sw.
ThrIdle ==
    [lock |-> "free",
     sw |-> [pc |-> "idle", id |-> NoId],
     rd |-> [pc |-> "idle", obs |-> "", mid |-> FALSE]]

\* lock_conn!(self.conn): the guard is taken when the mutex is free.
lock_conn(T, who) == [T EXCEPT !.lock = who]

\* The guard goes out of scope when the function returns.
drop_guard(T) == [T EXCEPT !.lock = "free"]

scp_cleared_unlocked(T) == [T EXCEPT !.sw.pc = "cleared", !.lock = "free"]

\* set_current_provider after its first statement: the guard taken at the
\* top of the function is still held.
scp_cleared(T) == [T EXCEPT !.sw.pc = "cleared"]

\* get_current_provider: the query, run under the guard.
gcp_query(T, db, app) ==
    [T EXCEPT !.rd = [pc |-> "queried",
                      obs |-> db_get_current_provider(db, app),
                      mid |-> T.sw.pc = "cleared"]]

-----------------------------------------------------------------------------
\* Database: the prompts table, keyed by (app_type, id)

\* "imp" is the id import_from_app makes up: imported-<seconds>.
PromptIds == {"a", "b", "imp"}

\* created_at, in seconds
Times == {1, 2}

NoPrompt == [present |-> FALSE, content |-> <<>>, enabled |-> FALSE, created_at |-> 0]

EmptyPrompts == [a \in Apps |-> [i \in PromptIds |-> NoPrompt]]

\* Orders in which SQLite may return rows of equal created_at: each pair of
\* ids comes both ways round.
IdOrders == {<<"a", "b", "imp">>, <<"imp", "b", "a">>}

\* The position of id in the order o.
Rank(o, id) == CHOOSE i \in DOMAIN o : o[i] = id

\* SELECT ... FROM prompts WHERE app_type = ? ORDER BY created_at ASC: the
\* ids in the order of the IndexMap.
get_all_prompts(tbl, app, tie) ==
    SortSeq(SelectSeq(tie, LAMBDA i : tbl[app][i].present),
            LAMBDA i, j : \/ tbl[app][i].created_at < tbl[app][j].created_at
                          \/ /\ tbl[app][i].created_at = tbl[app][j].created_at
                             /\ Rank(tie, i) < Rank(tie, j))

\* get_prompt(app, id).is_some()
get_prompt(tbl, app, id) == tbl[app][id].present

\* INSERT OR REPLACE INTO prompts (..., enabled, created_at, ...)
save_prompt(tbl, app, p) ==
    [tbl EXCEPT ![app][p.id] =
        [present |-> TRUE, content |-> p.content, enabled |-> p.enabled,
         created_at |-> p.created_at]]

\* DELETE FROM prompts WHERE id = ? AND app_type = ?
delete_prompt(tbl, app, id) == [tbl EXCEPT ![app][id] = NoPrompt]

\* UPDATE prompts SET enabled = ? ... WHERE id = ? AND app_type = ?
update_prompt_enabled(tbl, app, id, enabled) ==
    [tbl EXCEPT ![app][id].enabled = IF tbl[app][id].present THEN enabled ELSE @]

\* prompts.into_values().find(|p| p.enabled): the id, NoId for None.
get_enabled_prompt(tbl, app, tie) ==
    LET en == SelectSeq(get_all_prompts(tbl, app, tie), LAMBDA i : tbl[app][i].enabled)
    IN  IF en = <<>> THEN NoId ELSE Head(en)

-----------------------------------------------------------------------------
\* Database: the mcp_servers table, keyed by id.  server_config is the
\* column's JSON text; apps is the set of apps whose enabled_<app> is 1.

McpIds == {"m1", "m2"}

NoServer == [present |-> FALSE, server_config |-> <<>>, apps |-> {}]

EmptyMcp == [i \in McpIds |-> NoServer]

\* AppType::all()
AppOrder == <<"claude", "codex", "gemini", "opencode">>

\* McpApps::is_enabled_for
is_enabled_for(apps, app) == app \in apps

\* set_enabled_for that drops the bits of the other apps.
set_enabled_only(apps, app, enabled) == IF enabled THEN {app} ELSE {}

\* McpApps::set_enabled_for
set_enabled_for(apps, app, enabled) == IF enabled THEN apps \cup {app} ELSE apps \ {app}

\* McpApps::enabled_apps
enabled_apps(apps) == SelectSeq(AppOrder, LAMBDA a : a \in apps)

\* The McpServer of a row: serde_json::from_str(..).unwrap_or_default()
row_server_config(row) ==
    LET val == from_str(row.server_config)
    IN  IF val = JsonError THEN JNull ELSE val

\* get_all_mcp_servers: the ids
get_all_mcp_servers(tbl) == {i \in McpIds : tbl[i].present}

\* get_mcp_server(id).is_some()
get_mcp_server(tbl, id) == id \in get_all_mcp_servers(tbl)

\* INSERT OR REPLACE INTO mcp_servers
save_mcp_server(tbl, server) ==
    [tbl EXCEPT ![server.id] =
        [present |-> TRUE, server_config |-> to_string_pretty(server.server_config),
         apps |-> server.apps]]

\* DELETE FROM mcp_servers WHERE id = ?
delete_mcp_server(tbl, id) == [tbl EXCEPT ![id] = NoServer]

\* UPDATE mcp_servers SET enabled_claude = ?, ... WHERE id = ?
update_mcp_server_apps(tbl, id, apps) ==
    [tbl EXCEPT ![id].apps = IF tbl[id].present THEN apps ELSE @]

-----------------------------------------------------------------------------
\* Files

SettingsPath == "cc-switch/settings.json"
ClaudeSettings == "claude/settings.json"
ClaudeLegacy == "claude/claude.json"
CodexConfig == "codex/config.toml"
CodexAuth == "codex/auth.toml"
GeminiSettings == "gemini/settings.json"
\* get_claude_mcp_path and the OpenCode configuration
ClaudeMcp == "home/.claude.json"
OpenCodeConfig == "opencode/opencode.json"

LivePaths == {ClaudeSettings, ClaudeLegacy, CodexConfig, CodexAuth, GeminiSettings}

\* get_prompt_path(app)
get_prompt_path(app) ==
    CASE app = "claude" -> "claude/CLAUDE.md"
      [] app = "codex" -> "codex/AGENTS.md"
      [] app = "gemini" -> "gemini/GEMINI.md"
      [] app = "opencode" -> "opencode/AGENTS.md"

\* The file an app reads its MCP servers from.
get_mcp_path(app) ==
    CASE app = "claude" -> ClaudeMcp
      [] app = "codex" -> CodexConfig
      [] app = "gemini" -> GeminiSettings
      [] app = "opencode" -> OpenCodeConfig

Paths ==
    LivePaths \cup {SettingsPath, ClaudeMcp, OpenCodeConfig}
        \cup {get_prompt_path(a) : a \in Apps}

Absent == [t |-> "absent", v |-> <<>>]
TextFile(s) == [t |-> "text", v |-> s]
\* The file write_json_file writes.
JsonFile(val) == TextFile(to_string_pretty(val))
SettingsFile(doc) == [t |-> "settings", v |-> doc]

exists(files, path) == files[path].t # "absent"

\* Prefers settings.json, then an existing legacy claude.json, else settings.json.
get_claude_settings_path(files) ==
    IF exists(files, ClaudeSettings) THEN ClaudeSettings
    ELSE IF exists(files, ClaudeLegacy) THEN ClaudeLegacy
    ELSE ClaudeSettings

-----------------------------------------------------------------------------
\* Path resolution.  A path, like a text, is a sequence of tokens.  An
\* environment gives each variable a value (Unset, a string, or bytes that are
\* not Unicode), the directory dirs::home_dir() returns (None without one) and
\* the target of the build.

Unset == [t |-> "unset", v |-> <<>>]
EnvStr(s) == [t |-> "ok", v |-> s]
NotUnicode == [t |-> "notunicode", v |-> <<>>]

EnvVars ==
    {"CCSWITCH_HOME", "HOME", "CCSWITCH_CLAUDE_CONFIG_DIR", "CCSWITCH_CODEX_CONFIG_DIR",
     "CCSWITCH_GEMINI_CONFIG_DIR", "CCSWITCH_OPENCODE_CONFIG_DIR",
     "CCSWITCH_CONFIG_DIR", "XDG_CONFIG_HOME"}

\* std::env::var(name): Ok for a variable set to Unicode, Err for an unset
\* one (NotPresent) and for one set to other bytes (NotUnicode).
env_var(e, name) == IF e.vars[name].t = "ok" THEN JStr(e.vars[name].v) ELSE None

\* str::trim
RECURSIVE trim_start(_)
trim_start(s) ==
    IF s # <<>> /\ Head(s) \in {" ", "\n"} THEN trim_start(Tail(s)) ELSE s

RECURSIVE trim_end(_)
trim_end(s) ==
    IF s # <<>> /\ s[Len(s)] \in {" ", "\n"} THEN trim_end(SubSeq(s, 1, Len(s) - 1)) ELSE s

trim(s) == trim_end(trim_start(s))

\* Path::join with a relative name
join(base, name) == IF base = <<>> THEN <<name>> ELSE base \o <<"/", name>>

get_home_dir(e) ==
    LET home == env_var(e, "CCSWITCH_HOME")
        win == env_var(e, "HOME")
    IN  IF home.t = "str" /\ trim(home.v) # <<>> THEN trim(home.v)
        ELSE IF e.os = "windows" /\ win.t = "str" /\ trim(win.v) # <<>> THEN trim(win.v)
        ELSE IF e.home.t = "str" THEN e.home.v ELSE <<".">>

\* The override variable and the default directory name of each app.
DirVar(app) ==
    CASE app = "claude" -> "CCSWITCH_CLAUDE_CONFIG_DIR"
      [] app = "codex" -> "CCSWITCH_CODEX_CONFIG_DIR"
      [] app = "gemini" -> "CCSWITCH_GEMINI_CONFIG_DIR"
      [] app = "opencode" -> "CCSWITCH_OPENCODE_CONFIG_DIR"

DirName(app) ==
    CASE app = "claude" -> ".claude"
      [] app = "codex" -> ".codex"
      [] app = "gemini" -> ".gemini"
      [] app = "opencode" -> ".opencode"

\* get_claude_config_dir, get_codex_config_dir, get_gemini_config_dir and
\* get_opencode_config_dir
get_config_dir(e, app) ==
    LET dir == env_var(e, DirVar(app))
    IN  IF dir.t = "str" THEN dir.v ELSE join(get_home_dir(e), DirName(app))

get_app_config_dir(e) ==
    LET dir == env_var(e, "CCSWITCH_CONFIG_DIR")
        xdg_config == env_var(e, "XDG_CONFIG_HOME")
    IN  IF dir.t = "str" THEN dir.v
        ELSE IF e.os = "linux" /\ xdg_config.t = "str" THEN join(xdg_config.v, "cc-switch")
        ELSE join(get_home_dir(e), ".cc-switch")

\* The primary settings file of an app: get_claude_settings_path,
\* get_codex_config_path, get_gemini_settings_path.
get_settings_path(e, files, app) ==
    CASE app = "claude" ->
            join(get_config_dir(e, app),
                 IF get_claude_settings_path(files) = ClaudeLegacy
                 THEN "claude.json" ELSE "settings.json")
      [] app = "codex" -> join(get_config_dir(e, app), "config.toml")
      [] app = "gemini" -> join(get_config_dir(e, app), "settings.json")

\* read_json_file: the value, or its Err.
read_json_file(files, path) ==
    IF exists(files, path) THEN from_str(files[path].v) ELSE JsonError

\* The target holds the whole new content once the rename has happened.
atomic_write(files, path, data) == [files EXCEPT ![path] = data]

-----------------------------------------------------------------------------
\* atomic_write, statement by statement: the temporary file is created,
\* filled by write_all one chunk at a time, flushed, and renamed onto the
\* target.  A call is the record [pc, target, tmp, data, before]; before is
\* the target as the call found it.

Contents == {<<>>, <<"a">>, <<"a", "b">>}
Datas == {<<>>, <<"x">>, <<"x", "y">>, <<"x", "y", "z">>}

AwCall(pc, target, tmp, data, before) ==
    [pc |-> pc, target |-> target, tmp |-> tmp, data |-> data, before |-> before]

AwIdle == AwCall("idle", Absent, Absent, <<>>, Absent)

\* fs::File::create(&tmp)
File_create(a) == [a EXCEPT !.pc = "created", !.tmp = TextFile(<<>>)]

write_all_in_place(a) ==
    LET n == Len(a.tmp.v) + 1
    IN  [a EXCEPT !.tmp = TextFile(SubSeq(a.data, 1, n)),
                  !.target = TextFile(SubSeq(a.data, 1, n))]

\* f.write_all(data): one more chunk of data reaches the temporary file.
write_all(a) ==
    LET n == Len(a.tmp.v) + 1
    IN  [a EXCEPT !.tmp = TextFile(SubSeq(a.data, 1, n))]

\* f.flush() and the end of the block that closes the file
flush(a) == [a EXCEPT !.pc = "flushed"]

\* fs::rename(&tmp, path): the target takes the temporary file's place.
rename(a) == [a EXCEPT !.pc = "done", !.target = a.tmp, !.tmp = Absent]

\* An error return (or the death of the process) at the current statement.
aw_error(a) == [a EXCEPT !.pc = "failed"]

-----------------------------------------------------------------------------
\* atomic_write of two processes on one target.  A directory maps a name to
\* an inode (0: no such file), an inode holds a content, and a process that
\* has created its temporary file writes through a descriptor of the inode,
\* at an offset of its own.  The state is [dir, ino, old, w]; w[i] is the
\* call of process i: [pc, ts, fd, off].

Writers == {1, 2}

\* as_nanos() of the clock a process reads: the two reads may agree.
Stamps == {1, 2}

\* The data of the two calls, and the content found in the target.
RaceData == <<(<<"x", "y">>), (<<"p", "q">>)>>
OldData == <<"a", "b">>

\* format!("{file_name}.tmp.{ts}")
tmp_name(ts) == IF ts = 1 THEN "settings.json.tmp.1" ELSE "settings.json.tmp.2"

TargetName == "settings.json"

\* The inode of the target found, and the inode process i makes.
OldInode == 1
NewInode(i) == 1 + i

RaceCall(pc, ts, fd, off) == [pc |-> pc, ts |-> ts, fd |-> fd, off |-> off]

RaceIdle ==
    [dir |-> [n \in {TargetName, tmp_name(1), tmp_name(2)} |-> 0],
     ino |-> [k \in 1..3 |-> <<>>],
     old |-> Absent,
     w |-> [i \in Writers |-> RaceCall("idle", 0, 0, 0)]]

\* The file a name leads to.
FileAt(r, name) == IF r.dir[name] = 0 THEN Absent ELSE TextFile(r.ino[r.dir[name]])

\* let ts = SystemTime::now()...as_nanos()
race_stamp(r, i, ts) == [r EXCEPT !.w[i] = RaceCall("start", ts, 0, 0)]

race_create_in_place(r, i) ==
    LET k == IF r.dir[TargetName] = 0 THEN NewInode(i) ELSE r.dir[TargetName]
    IN  [r EXCEPT !.dir[TargetName] = k, !.ino[k] = <<>>,
                  !.w[i] = RaceCall("created", r.w[i].ts, k, 0)]

\* fs::File::create(&tmp): a new empty file, or the file of that name
\* truncated; the descriptor starts at offset 0.
race_create(r, i) ==
    LET name == tmp_name(r.w[i].ts)
        k == IF r.dir[name] = 0 THEN NewInode(i) ELSE r.dir[name]
    IN  [r EXCEPT !.dir[name] = k, !.ino[k] = <<>>,
                  !.w[i] = RaceCall("created", r.w[i].ts, k, 0)]

\* The content with chunk c written at offset off (the first chunk is at
\* 0); a gap up to the offset reads as zeros.
write_at(content, off, c) ==
    [n \in 1..(IF Len(content) > off + 1 THEN Len(content) ELSE off + 1) |->
        IF n = off + 1 THEN c
        ELSE IF n <= Len(content) THEN content[n] ELSE "0"]

\* f.write_all(data): one more chunk, through the descriptor.
race_write_all(r, i) ==
    LET c == r.w[i]
    IN  [r EXCEPT !.ino[c.fd] = write_at(@, c.off, RaceData[i][c.off + 1]),
                  !.w[i].off = c.off + 1]

\* f.flush() and the end of the block that closes the file
race_flush(r, i) == [r EXCEPT !.w[i].pc = "flushed"]

\* fs::rename(&tmp, path): an error when no file has the temporary name.
race_rename(r, i) ==
    LET name == tmp_name(r.w[i].ts)
    IN  IF r.dir[name] = 0 THEN [r EXCEPT !.w[i].pc = "failed"]
        ELSE [r EXCEPT !.dir[TargetName] = r.dir[name], !.dir[name] = 0,
                       !.w[i].pc = "done"]

\* An error return, or the death of the process, at the current statement.
race_error(r, i) == [r EXCEPT !.w[i].pc = "failed"]

-----------------------------------------------------------------------------
\* settings: AppSettings, its file and the process-wide cache

SettingsApps == {"claude", "codex", "gemini"}

DefaultSettings == [a \in SettingsApps |-> NoId]

AppSettings_get_current_provider(doc, app) ==
    IF app \in SettingsApps THEN doc[app] ELSE NoId

AppSettings_set_current_provider(doc, app, id) ==
    IF app \in SettingsApps THEN [doc EXCEPT ![app] = id] ELSE doc

AppSettings_load(files) ==
    IF exists(files, SettingsPath) THEN files[SettingsPath].v ELSE DefaultSettings

NoCache == [t |-> "none", v |-> <<>>]
Cached(doc) == [t |-> "some", v |-> doc]

\* The document get_settings returns: the cached one, else the loaded one.
get_settings(S) == IF S.cache.t = "some" THEN S.cache.v ELSE AppSettings_load(S.fs)

settings_get_current_provider(S, app) ==
    AppSettings_get_current_provider(get_settings(S), app)

-----------------------------------------------------------------------------
\* The statements a call executes, in order.  Each one either takes effect
\* or fails (or the process dies at it), which ends the call.

NoCfg == None

Eff(e, app, id, cfg, path, data) ==
    [e |-> e, app |-> app, id |-> id, cfg |-> cfg, path |-> path, data |-> data]

SaveStmt(app, p) == Eff("save", app, p.id, p.settings_config, "", Absent)
DeleteStmt(app, id) == Eff("delete", app, id, NoCfg, "", Absent)
ClearStmt(app) == Eff("clear", app, NoId, NoCfg, "", Absent)
MarkStmt(app, id) == Eff("mark", app, id, NoCfg, "", Absent)
\* get_settings, when it fills the cache
LoadStmt == Eff("load", "", NoId, NoCfg, "", Absent)
\* settings::set_current_provider
SettingsStmt(app, id) == Eff("settings", app, id, NoCfg, SettingsPath, Absent)
\* write_json_file / write_text_file of a live file
WriteStmt(path, data) == Eff("write", "", NoId, NoCfg, path, data)

\* save_prompt, delete_prompt and update_prompt_enabled of the prompts table
PSaveStmt(app, p) == Eff("psave", app, p.id, p, "", Absent)
PDeleteStmt(app, id) == Eff("pdelete", app, id, NoCfg, "", Absent)
PEnableStmt(app, id, enabled) == Eff("penable", app, id, enabled, "", Absent)

\* save_mcp_server, delete_mcp_server and update_mcp_server_apps
MSaveStmt(server) == Eff("msave", "", server.id, server, "", Absent)
MDeleteStmt(id) == Eff("mdelete", "", id, NoCfg, "", Absent)
MAppsStmt(id, apps) == Eff("mapps", "", id, apps, "", Absent)
\* A statement that panics: the call ends there, whatever failed before.
PanicStmt == Eff("panic", "", NoId, NoCfg, "", Absent)

\* update_settings: get_settings, update_fn, save, then the cache.
update_settings(S, app, id) ==
    LET doc == AppSettings_set_current_provider(get_settings(S), app, id)
    IN  [S EXCEPT !.fs = atomic_write(S.fs, SettingsPath, SettingsFile(doc)),
                  !.cache = Cached(doc),
                  !.writes = Append(@, SettingsPath)]

\* The state after statement eff has taken effect.
Apply(S, eff) ==
    CASE eff.e = "save" ->
            [S EXCEPT !.store =
                save_provider(S.store, eff.app, [id |-> eff.id, settings_config |-> eff.cfg])]
      [] eff.e = "delete" -> [S EXCEPT !.store = delete_provider(S.store, eff.app, eff.id)]
      [] eff.e = "clear" -> [S EXCEPT !.store = clear_current(S.store, eff.app)]
      [] eff.e = "mark" -> [S EXCEPT !.store = mark_current(S.store, eff.app, eff.id)]
      [] eff.e = "load" -> [S EXCEPT !.cache = Cached(get_settings(S))]
      [] eff.e = "settings" -> update_settings(S, eff.app, eff.id)
      [] eff.e = "write" ->
            [S EXCEPT !.fs = atomic_write(S.fs, eff.path, eff.data),
                      !.writes = Append(@, eff.path)]
      [] eff.e = "psave" -> [S EXCEPT !.prompts = save_prompt(S.prompts, eff.app, eff.cfg)]
      [] eff.e = "pdelete" -> [S EXCEPT !.prompts = delete_prompt(S.prompts, eff.app, eff.id)]
      [] eff.e = "penable" ->
            [S EXCEPT !.prompts = update_prompt_enabled(S.prompts, eff.app, eff.id, eff.cfg)]
      [] eff.e = "msave" -> [S EXCEPT !.mcp = save_mcp_server(S.mcp, eff.cfg)]
      [] eff.e = "mdelete" -> [S EXCEPT !.mcp = delete_mcp_server(S.mcp, eff.id)]
      [] eff.e = "mapps" -> [S EXCEPT !.mcp = update_mcp_server_apps(S.mcp, eff.id, eff.cfg)]

\* A failed save that leaves the updated document in the cache.
fail_after_cache(S, eff) ==
    IF eff.e = "settings"
    THEN [S EXCEPT !.cache =
            Cached(AppSettings_set_current_provider(get_settings(S), eff.app, eff.id))]
    ELSE S

\* The state after statement eff has failed: a failed save of the settings
\* file leaves the document get_settings loaded in the cache; every other
\* statement fails without effect.
Fail(S, eff) ==
    IF eff.e = "settings" THEN [S EXCEPT !.cache = Cached(get_settings(S))] ELSE S

\* The error a failed statement returns.
ErrorOf(eff) ==
    IF eff.e \in {"save", "delete", "clear", "mark", "psave", "pdelete", "penable",
                  "msave", "mdelete", "mapps"}
    THEN "Database"
    ELSE IF eff.e = "panic" THEN "Panic" ELSE "Io"

RECURSIVE RunAll(_, _)
RunAll(S, effs) ==
    IF effs = <<>> THEN S ELSE RunAll(Apply(S, Head(effs)), Tail(effs))

\* Statements 1..k-1 take effect and statement k fails; k = Len + 1: none fails.
RunTo(S, effs, k) ==
    LET S1 == RunAll(S, SubSeq(effs, 1, k - 1))
    IN  IF k <= Len(effs) THEN Fail(S1, effs[k]) ELSE S1

\* The statements at which a call may end early, and Len + 1: it runs to its
\* end.  Filling the cache cannot fail the call: get_current_provider maps
\* an error to None.
\* The first statement that panics; Len + 1 when none does.
FirstPanic(effs) ==
    IF \E k \in DOMAIN effs : effs[k].e = "panic"
    THEN CHOOSE k \in DOMAIN effs :
            effs[k].e = "panic" /\ \A j \in 1..(k - 1) : effs[j].e # "panic"
    ELSE Len(effs) + 1

\* A call ends at a statement that fails, at its first panic, or at its end.
StopPoints(effs, faults) ==
    {k \in 1..(FirstPanic(effs) - 1) : effs[k].e # "load" /\ faults < MaxFaults}
        \cup {FirstPanic(effs)}

-----------------------------------------------------------------------------
\* ProviderService

write_claude_live_legacy(files, p) ==
    <<WriteStmt(ClaudeLegacy, JsonFile(p.settings_config))>>

write_claude_live(files, p) ==
    <<WriteStmt(get_claude_settings_path(files), JsonFile(p.settings_config))>>

write_codex_live_config_only(files, p) ==
    LET config == as_str(Get(p.settings_config, "config"))
    IN  IF config.t = "str" THEN <<WriteStmt(CodexConfig, TextFile(config.v))>> ELSE <<>>

write_codex_live_auth_first(files, p) ==
    LET config == as_str(Get(p.settings_config, "config"))
        auth == as_str(Get(p.settings_config, "auth"))
    IN  (IF auth.t = "str" THEN <<WriteStmt(CodexAuth, TextFile(auth.v))>> ELSE <<>>)
        \o (IF config.t = "str" THEN <<WriteStmt(CodexConfig, TextFile(config.v))>> ELSE <<>>)

write_codex_live(files, p) ==
    LET config == as_str(Get(p.settings_config, "config"))
        auth == as_str(Get(p.settings_config, "auth"))
    IN  (IF config.t = "str" THEN <<WriteStmt(CodexConfig, TextFile(config.v))>> ELSE <<>>)
        \o (IF auth.t = "str" THEN <<WriteStmt(CodexAuth, TextFile(auth.v))>> ELSE <<>>)

write_gemini_live(files, p) ==
    <<WriteStmt(GeminiSettings, JsonFile(p.settings_config))>>

write_opencode_live(files, p) == <<>>

\* read_live_settings: the document of the live file, {} without one; for
\* Codex the texts of the two files, "" for a missing one.
read_live_settings(files, app) ==
    CASE app = "claude" ->
            IF exists(files, get_claude_settings_path(files))
            THEN read_json_file(files, get_claude_settings_path(files))
            ELSE EmptyObj
      [] app = "codex" ->
            JObj([config |-> JStr(IF exists(files, CodexConfig)
                                  THEN files[CodexConfig].v ELSE <<>>),
                  auth |-> JStr(IF exists(files, CodexAuth)
                                THEN files[CodexAuth].v ELSE <<>>)])
      [] app = "gemini" ->
            IF exists(files, GeminiSettings) THEN read_json_file(files, GeminiSettings)
            ELSE EmptyObj
      [] app = "opencode" -> EmptyObj

write_live_snapshot(files, app, p) ==
    CASE app = "claude" -> write_claude_live(files, p)
      [] app = "codex" -> write_codex_live(files, p)
      [] app = "gemini" -> write_gemini_live(files, p)
      [] app = "opencode" -> write_opencode_live(files, p)

current_unchecked_overlay(S, app) ==
    IF is_additive_mode(app) THEN ""
    ELSE LET id == settings_get_current_provider(S, app)
             c == db_get_current_provider(S.store, app)
         IN  IF id # NoId THEN id
             ELSE IF c = NoId THEN "" ELSE c

\* The id current returns; "" is String::new() / unwrap_or_default().
current(S, app) ==
    IF is_additive_mode(app) THEN ""
    ELSE LET id == settings_get_current_provider(S, app)
             c == db_get_current_provider(S.store, app)
         IN  IF id # NoId /\ id \in get_all_providers(S.store, app) THEN id
             ELSE IF c = NoId THEN "" ELSE c

\* The statements of current: the cache is filled unless the app is additive.
current_stmts(app) == IF is_additive_mode(app) THEN <<>> ELSE <<LoadStmt>>

Call(effs, res) == [effs |-> effs, res |-> res]

add_call(S, app, p) ==
    IF ~validate_provider_settings(app, p.settings_config)
    THEN Call(<<>>, "InvalidInput")
    ELSE LET save == <<SaveStmt(app, p)>>
             S1 == RunAll(S, save)
         IN  IF is_additive_mode(app)
             THEN Call(save \o write_live_snapshot(S1.fs, app, p), "Ok")
             ELSE IF db_get_current_provider(S1.store, app) = NoId
                  THEN Call(save \o <<ClearStmt(app), MarkStmt(app, p.id),
                                      SettingsStmt(app, p.id)>>
                                 \o write_live_snapshot(S1.fs, app, p), "Ok")
                  ELSE Call(save, "Ok")

\* update that saves the provider and never writes the live file.
update_call_no_sync(S, app, p) ==
    IF ~validate_provider_settings(app, p.settings_config)
    THEN Call(<<>>, "InvalidInput")
    ELSE Call(<<SaveStmt(app, p)>> \o current_stmts(app), "Ok")

update_call(S, app, p) ==
    IF ~validate_provider_settings(app, p.settings_config)
    THEN Call(<<>>, "InvalidInput")
    ELSE LET save == <<SaveStmt(app, p)>>
             S1 == RunAll(S, save)
         IN  IF is_additive_mode(app)
             THEN Call(save \o write_live_snapshot(S1.fs, app, p), "Ok")
             ELSE IF current(S1, app) = p.id
                  THEN Call(save \o current_stmts(app)
                                 \o write_live_snapshot(S1.fs, app, p), "Ok")
                  ELSE Call(save \o current_stmts(app), "Ok")

delete_call_unguarded(S, app, id) ==
    IF is_additive_mode(app)
    THEN Call(<<DeleteStmt(app, id)>>, "Ok")
    ELSE Call(current_stmts(app) \o <<DeleteStmt(app, id)>>, "Ok")

delete_call(S, app, id) ==
    IF is_additive_mode(app)
    THEN Call(<<DeleteStmt(app, id)>>, "Ok")
    ELSE IF current(S, app) = id
         THEN Call(current_stmts(app), "Message")
         ELSE Call(current_stmts(app) \o <<DeleteStmt(app, id)>>, "Ok")

switch_call_unchecked(S, app, id) ==
    Call(<<SettingsStmt(app, id), ClearStmt(app), MarkStmt(app, id)>>
             \o (IF id \in get_all_providers(S.store, app)
                 THEN write_live_snapshot(S.fs, app, provider_of(S.store, app, id))
                 ELSE <<>>), "Ok")

switch_call(S, app, id) ==
    IF id \notin get_all_providers(S.store, app)
    THEN Call(<<>>, "ProviderNotFound")
    ELSE Call(<<SettingsStmt(app, id), ClearStmt(app), MarkStmt(app, id)>>
                  \o write_live_snapshot(S.fs, app, provider_of(S.store, app, id)), "Ok")

-----------------------------------------------------------------------------
\* PromptService.  tie is the order in which the store returns prompts of
\* equal created_at.

\* The text is empty once trimmed.
trim_is_empty(text) == \A i \in DOMAIN text : text[i] \in {" ", "\n"}

prompt_sync_never(S, app, tie) == <<>>

\* sync_to_app: the enabled prompt's content, or an existing file emptied.
prompt_sync_to_app(S, app, tie) ==
    LET path == get_prompt_path(app)
        id == get_enabled_prompt(S.prompts, app, tie)
    IN  IF id # NoId THEN <<WriteStmt(path, TextFile(S.prompts[app][id].content))>>
        ELSE IF exists(S.fs, path) THEN <<WriteStmt(path, TextFile(<<>>))>>
        ELSE <<>>

prompt_add_call_unchecked(S, app, p, tie) ==
    LET save == <<PSaveStmt(app, p)>>
    IN  IF p.enabled
        THEN Call(save \o prompt_sync_to_app(RunAll(S, save), app, tie), "Ok")
        ELSE Call(save, "Ok")

prompt_add_call(S, app, p, tie) ==
    IF get_prompt(S.prompts, app, p.id)
    THEN Call(<<>>, "InvalidInput")
    ELSE LET save == <<PSaveStmt(app, p)>>
         IN  IF p.enabled
             THEN Call(save \o prompt_sync_to_app(RunAll(S, save), app, tie), "Ok")
             ELSE Call(save, "Ok")

prompt_update_call(S, app, p, tie) ==
    IF ~get_prompt(S.prompts, app, p.id)
    THEN Call(<<>>, "InvalidInput")
    ELSE LET save == <<PSaveStmt(app, p)>>
         IN  Call(save \o prompt_sync_to_app(RunAll(S, save), app, tie), "Ok")

prompt_remove_call(S, app, id, tie) ==
    IF ~get_prompt(S.prompts, app, id)
    THEN Call(<<>>, "InvalidInput")
    ELSE LET del == <<PDeleteStmt(app, id)>>
         IN  IF S.prompts[app][id].enabled
             THEN Call(del \o prompt_sync_to_app(RunAll(S, del), app, tie), "Ok")
             ELSE Call(del, "Ok")

\* The statements that disable the prompts ids names, in that order.
disable_each(app, ids) == [k \in DOMAIN ids |-> PEnableStmt(app, ids[k], FALSE)]

prompt_enable_call_keep_others(S, app, id, tie) ==
    IF ~get_prompt(S.prompts, app, id)
    THEN Call(<<>>, "InvalidInput")
    ELSE LET set == <<PEnableStmt(app, id, TRUE)>>
         IN  Call(set \o prompt_sync_to_app(RunAll(S, set), app, tie), "Ok")

prompt_enable_call(S, app, id, tie) ==
    IF ~get_prompt(S.prompts, app, id)
    THEN Call(<<>>, "InvalidInput")
    ELSE LET others == SelectSeq(get_all_prompts(S.prompts, app, tie), LAMBDA i : i # id)
             set == disable_each(app, others) \o <<PEnableStmt(app, id, TRUE)>>
         IN  Call(set \o prompt_sync_to_app(RunAll(S, set), app, tie), "Ok")

prompt_disable_call(S, app, id, tie) ==
    IF ~get_prompt(S.prompts, app, id)
    THEN Call(<<>>, "InvalidInput")
    ELSE LET set == <<PEnableStmt(app, id, FALSE)>>
         IN  Call(set \o prompt_sync_to_app(RunAll(S, set), app, tie), "Ok")

\* import_from_app at second now: Ok(None) without a prompt file or with a
\* blank one; otherwise every prompt is disabled and the file's content is
\* saved as an enabled prompt.  No sync follows.
prompt_import_call(S, app, now, tie) ==
    LET path == get_prompt_path(app)
    IN  IF ~exists(S.fs, path) THEN Call(<<>>, "None")
        ELSE IF trim_is_empty(S.fs[path].v) THEN Call(<<>>, "None")
        ELSE Call(disable_each(app, get_all_prompts(S.prompts, app, tie))
                      \o <<PSaveStmt(app, [id |-> "imp", content |-> S.fs[path].v,
                                           enabled |-> TRUE, created_at |-> now])>>,
                  "Some")

-----------------------------------------------------------------------------
\* McpService.  A call is the sequence of its statements.

\* enabled_servers of sync_to_app: id -> server_config of the servers
\* enabled for app.
enabled_servers(tbl, app) ==
    [i \in {i \in get_all_mcp_servers(tbl) : is_enabled_for(tbl[i].apps, app)} |->
        row_server_config(tbl[i])]

\* A writer that starts from an empty document whatever the file holds.
write_json_mcp_fresh(files, path, servers) ==
    <<WriteStmt(path, JsonFile(JObj(("mcpServers" :> JObj(servers)))))>>

\* config["mcpServers"] = value: a null becomes an object first; the index
\* panics on every other kind of value (can_index_set is false).
can_index_set(config) == config.t \in {"null", "obj"}

index_set(config, key, value) ==
    CASE config.t = "null" -> JObj((key :> value))
      [] config.t = "obj" -> JObj((key :> value) @@ config.v)

\* write_claude_mcp, write_gemini_mcp, write_opencode_mcp: the existing
\* document, {} when there is none or it does not parse, with mcpServers set.
write_json_mcp(files, path, servers) ==
    LET found == read_json_file(files, path)
        config == IF found = JsonError THEN EmptyObj ELSE found
    IN  IF can_index_set(config)
        THEN <<WriteStmt(path, JsonFile(index_set(config, "mcpServers", JObj(servers))))>>
        ELSE <<PanicStmt>>

\* write_codex_mcp: the same on config.toml, with the mcp_servers table.
write_codex_mcp(files, servers) ==
    LET found == IF exists(files, CodexConfig) THEN toml_parse(files[CodexConfig].v)
                 ELSE EmptyObj
        config == IF found = TomlError THEN EmptyObj ELSE found
        mcp_table == IF DOMAIN servers = {} THEN EmptyObj
                     ELSE JObj([i \in DOMAIN servers |-> json_to_toml(servers[i])])
    IN  <<WriteStmt(CodexConfig,
                    TextFile(toml_to_string_pretty(("mcp_servers" :> mcp_table) @@ config.v)))>>

\* read_claude_mcp, read_gemini_mcp, read_opencode_mcp: id -> config of the
\* mcpServers object; nothing when there is no file or no such object.
read_json_mcp(files, path) ==
    IF ~exists(files, path) THEN <<>>
    ELSE LET config == read_json_file(files, path)
             servers == Get(config, "mcpServers")
         IN  IF config = JsonError THEN JsonError
             ELSE IF servers.t = "obj" THEN servers.v ELSE <<>>

\* read_codex_mcp: the same of the mcp_servers table of config.toml.
read_codex_mcp(files) ==
    IF ~exists(files, CodexConfig) THEN <<>>
    ELSE LET config == toml_parse(files[CodexConfig].v)
             servers == Get(config, "mcp_servers")
         IN  IF config = TomlError THEN TomlError
             ELSE IF servers.t = "obj" /\ DOMAIN servers.v # {}
                  THEN [i \in DOMAIN servers.v |-> toml_to_json(servers.v[i])]
                  ELSE <<>>

\* read_app_mcp_config
read_app_mcp_config(files, app) ==
    IF app = "codex" THEN read_codex_mcp(files) ELSE read_json_mcp(files, get_mcp_path(app))

mcp_sync_nowhere(S, app) == <<>>

\* sync_to_app
mcp_sync_to_app(S, app) ==
    LET servers == enabled_servers(S.mcp, app)
    IN  IF app = "codex" THEN write_codex_mcp(S.fs, servers)
        ELSE write_json_mcp(S.fs, get_mcp_path(app), servers)

\* for app in apps { sync_to_app(app)? }: each app has a file of its own.
RECURSIVE mcp_sync_each(_, _)
mcp_sync_each(S, apps) ==
    IF apps = <<>> THEN <<>>
    ELSE mcp_sync_to_app(S, Head(apps)) \o mcp_sync_each(S, Tail(apps))

\* sync_all
mcp_sync_all(S) == mcp_sync_each(S, AppOrder)

\* sync_to_apps
mcp_sync_to_apps(S, server) == mcp_sync_each(S, enabled_apps(server.apps))

mcp_add_call_unchecked(S, server) ==
    LET save == <<MSaveStmt(server)>>
    IN  Call(save \o mcp_sync_to_apps(RunAll(S, save), server), "Ok")

mcp_add_call(S, server) ==
    IF get_mcp_server(S.mcp, server.id)
    THEN Call(<<>>, "InvalidInput")
    ELSE LET save == <<MSaveStmt(server)>>
         IN  Call(save \o mcp_sync_to_apps(RunAll(S, save), server), "Ok")

mcp_update_call(S, server) ==
    IF ~get_mcp_server(S.mcp, server.id)
    THEN Call(<<>>, "InvalidInput")
    ELSE LET save == <<MSaveStmt(server)>>
         IN  Call(save \o mcp_sync_all(RunAll(S, save)), "Ok")

mcp_remove_call(S, id) ==
    IF ~get_mcp_server(S.mcp, id)
    THEN Call(<<>>, "InvalidInput")
    ELSE LET del == <<MDeleteStmt(id)>>
         IN  Call(del \o mcp_sync_all(RunAll(S, del)), "Ok")

mcp_toggle_call(S, id, app, enable) ==
    IF ~get_mcp_server(S.mcp, id)
    THEN Call(<<>>, "InvalidInput")
    ELSE LET set == <<MAppsStmt(id, set_enabled_for(S.mcp[id].apps, app, enable))>>
         IN  Call(set \o mcp_sync_to_app(RunAll(S, set), app), "Ok")

-----------------------------------------------------------------------------
\* The providers the callers pass in: for each app two that pass validation
\* and one that does not (OpenCode: none is refused).

ClaudeToken == JObj([env |-> JObj([ANTHROPIC_AUTH_TOKEN |-> JStr(<<"t1">>)])])
ClaudeKey == JObj([env |-> JObj([ANTHROPIC_API_KEY |-> JStr(<<"k2">>)])])
ClaudeEmptyKey == JObj([env |-> JObj([ANTHROPIC_API_KEY |-> JStr(<<>>)])])

CodexBoth == JObj([config |-> JStr(<<"api", "_key", "=", "k1">>), auth |-> JStr(<<"tok1">>)])
CodexAuthOnly == JObj([auth |-> JStr(<<"tok2">>)])
CodexNoAuth == JObj([config |-> JStr(<<"model", "=", "m">>)])

GeminiOne == JObj([apiKey |-> JStr(<<"g1">>)])
GeminiTwo == JObj([apiKey |-> JStr(<<"g2">>)])
GeminiEmptyKey == JObj([apiKey |-> JStr(<<>>)])

OpenCodeOne == JObj([apiKey |-> JStr(<<"o1">>)])
OpenCodeEmpty == EmptyObj

Configs(app) ==
    CASE app = "claude" -> {ClaudeToken, ClaudeKey, ClaudeEmptyKey}
      [] app = "codex" -> {CodexBoth, CodexAuthOnly, CodexNoAuth}
      [] app = "gemini" -> {GeminiOne, GeminiTwo, GeminiEmptyKey}
      [] app = "opencode" -> {OpenCodeOne, OpenCodeEmpty}

Providers(app) == {[id |-> i, settings_config |-> c] : i \in Ids, c \in Configs(app)}

-----------------------------------------------------------------------------
\* State

\* A run that resolves no path.
NoEnv == [vars |-> [n \in EnvVars |-> Unset], home |-> None, os |-> "linux"]

NotResolved == [what |-> "", app |-> "", path |-> <<>>]

PathsIdle == environ = NoEnv /\ resolved = NotResolved

\* The variables of the services a run does not exercise.
ExtIdle(service) ==
    /\ prompts = EmptyPrompts
    /\ mcp = EmptyMcp
    /\ svc = service
    /\ aw = AwIdle
    /\ race = RaceIdle
    /\ PathsIdle
    /\ thr = ThrIdle

Here ==
    [store |-> store, fs |-> fs, cache |-> cache, writes |-> <<>>,
     prompts |-> prompts, mcp |-> mcp]

Last(op, app, id, cfg, res, ret, writes) ==
    [op |-> op, app |-> app, id |-> id, cfg |-> cfg, res |-> res, ret |-> ret,
     writes |-> writes]

\* A settings file left by an earlier installation may name a provider the
\* store does not hold.
StaleSettings == [a \in SettingsApps |-> "p1"]

InitialSettings == {Absent, SettingsFile(StaleSettings)}

Init ==
    /\ store = EmptyStore
    /\ \E f \in InitialSettings :
          fs = [p \in Paths |-> IF p = SettingsPath THEN f ELSE Absent]
    /\ cache = NoCache
    /\ last = Last("init", "", NoId, NoCfg, "Ok", "", <<>>)
    /\ nfaults = 0
    /\ focus \in Apps
    /\ added = {}
    /\ vin = [app |-> "claude", cfg |-> EmptyObj]
    /\ vout = "idle"
    /\ ExtIdle("provider")

\* One service call: statements 1..k-1 of it take effect, statement k fails.
\* added records the apps a provider was ever added to.
Finish(op, app, id, cfg, call, k) ==
    \E S1 \in {RunTo(Here, call.effs, k)} :
        /\ store' = S1.store
        /\ fs' = S1.fs
        /\ cache' = S1.cache
        /\ last' = Last(op, app, id, cfg,
                        IF k <= Len(call.effs) THEN ErrorOf(call.effs[k]) ELSE call.res,
                        "", S1.writes)
        /\ nfaults' = IF k <= Len(call.effs) THEN nfaults + 1 ELSE nfaults
        /\ added' = IF op = "add" /\ k > Len(call.effs) /\ call.res = "Ok"
                     THEN added \cup {app} ELSE added
        /\ UNCHANGED <<focus, vin, vout>>
        /\ UNCHANGED ext

add_step(app, p) ==
    \E call \in {add_call(Here, app, p)} :
        \E k \in StopPoints(call.effs, nfaults) :
            Finish("add", app, p.id, p.settings_config, call, k)

update_step(app, p) ==
    \E call \in {update_call(Here, app, p)} :
        \E k \in StopPoints(call.effs, nfaults) :
            Finish("update", app, p.id, p.settings_config, call, k)

delete_step(app, id) ==
    \E call \in {delete_call(Here, app, id)} :
        \E k \in StopPoints(call.effs, nfaults) :
            Finish("delete", app, id, NoCfg, call, k)

switch_step(app, id) ==
    \E call \in {switch_call(Here, app, id)} :
        \E k \in StopPoints(call.effs, nfaults) :
            Finish("switch", app, id, NoCfg, call, k)

\* The calls of one behaviour are the calls on one app: calls on different
\* apps touch different rows, settings fields and live files.
add == \E p \in Providers(focus) : add_step(focus, p)

update == \E p \in Providers(focus) : update_step(focus, p)

delete == \E id \in Ids : delete_step(focus, id)

switch == \E id \in Ids : switch_step(focus, id)

\* ProviderService::current, called by the front end.
read_current ==
    /\ \E S1 \in {RunAll(Here, current_stmts(focus))} : cache' = S1.cache
    /\ last' = Last("current", focus, NoId, NoCfg, "Ok", current(Here, focus), <<>>)
    /\ UNCHANGED <<store, fs, nfaults, focus, added, vin, vout>>
    /\ UNCHANGED ext

\* The process ends and the next invocation starts with an empty cache.
restart ==
    /\ cache # NoCache
    /\ cache' = NoCache
    /\ last' = Last("restart", focus, NoId, NoCfg, "Ok", "", <<>>)
    /\ UNCHANGED <<store, fs, nfaults, focus, added, vin, vout>>
    /\ UNCHANGED ext

Next == add \/ update \/ delete \/ switch \/ read_current \/ restart

Spec == Init /\ [][Next]_vars

-----------------------------------------------------------------------------
\* The provider service on an app whose live files the application, or the
\* user, wrote before the first call.

\* Claude's document: a key no provider has, and an env of its own.
ClaudeFound ==
    JObj([theme |-> JStr(<<"dark">>),
          env |-> JObj([ANTHROPIC_API_KEY |-> JStr(<<"old">>)])])

\* Gemini's document: a key no provider has, and the MCP servers.
GeminiFound ==
    JObj([theme |-> JStr(<<"dark">>),
          mcpServers |-> JObj([m1 |-> JObj([command |-> JStr(<<"npx">>)])])])

\* The live files found: Claude's document is settings.json or the legacy
\* claude.json.
FoundFiles ==
    {[app |-> "claude", files |-> (ClaudeSettings :> JsonFile(ClaudeFound))],
     [app |-> "claude", files |-> (ClaudeLegacy :> JsonFile(ClaudeFound))],
     [app |-> "codex",
      files |-> (CodexConfig :> TextFile(<<"model", "=", "\"", "old", "\"", "\n">>))
                    @@ (CodexAuth :> TextFile(<<"old">>))],
     [app |-> "gemini", files |-> (GeminiSettings :> JsonFile(GeminiFound))]}

InitLive ==
    /\ store = EmptyStore
    /\ \E found \in FoundFiles :
          /\ focus = found.app
          /\ fs = [p \in Paths |->
                    IF p \in DOMAIN found.files THEN found.files[p] ELSE Absent]
    /\ cache = NoCache
    /\ last = Last("init", "", NoId, NoCfg, "Ok", "", <<>>)
    /\ nfaults = 0
    /\ added = {}
    /\ vin = [app |-> "claude", cfg |-> EmptyObj]
    /\ vout = "idle"
    /\ ExtIdle("provider")

SpecLive == InitLive /\ [][Next]_vars

-----------------------------------------------------------------------------
\* validate_provider_settings on its own: every app with every settings_config
\* of a family that has each field absent, of a wrong kind, empty and filled.

Scalars == {JNull, JNum, JStr(<<>>), JStr(<<"k">>)}

ObjectsOver(keys, vals) == {JObj(f) : f \in UNION {[D -> vals] : D \in SUBSET keys}}

ClaudeInputs ==
    {JObj([env |-> e]) :
        e \in Scalars \cup ObjectsOver({"ANTHROPIC_API_KEY", "ANTHROPIC_AUTH_TOKEN"}, Scalars)}

Texts ==
    {<<>>, <<"x">>, <<"api">>, <<"api", "_key">>, <<"x", "api", "_key", "x">>,
     <<"api", "x", "_key">>, <<"_key", "api">>, <<"access", "_token">>,
     <<"x", "access", "_token">>, <<"access", "_key">>}

CodexInputs ==
    ObjectsOver({"config", "auth"}, {JNull, JNum} \cup {JStr(s) : s \in Texts})

GeminiInputs ==
    ObjectsOver({"apiKey"}, Scalars \cup {EmptyObj})
        \cup {JObj([env |-> JObj([apiKey |-> JStr(<<"k">>)])])}

ValidationInputs == Scalars \cup ClaudeInputs \cup CodexInputs \cup GeminiInputs

InitValidate ==
    /\ store = EmptyStore
    /\ fs = [p \in Paths |-> Absent]
    /\ cache = NoCache
    /\ last = Last("init", "", NoId, NoCfg, "Ok", "", <<>>)
    /\ nfaults = 0
    /\ focus = "claude"
    /\ added = {}
    /\ vin \in [app : Apps, cfg : ValidationInputs]
    /\ vout = "pending"
    /\ ExtIdle("provider")

validate ==
    /\ vout = "pending"
    /\ vout' = IF validate_provider_settings(vin.app, vin.cfg) THEN "Ok" ELSE "InvalidInput"
    /\ UNCHANGED <<store, fs, cache, last, nfaults, focus, added, vin>>
    /\ UNCHANGED ext

SpecValidate == InitValidate /\ [][validate]_vars

-----------------------------------------------------------------------------
\* The prompt and MCP services.  A run exercises one of them: the two use
\* different tables and files.  The prompt service treats every app alike but
\* for the path of its prompt file, and prompt calls on different apps touch
\* different rows and files: the calls are the calls on Claude, and the
\* other apps hold a prompt of their own.

PromptTexts == {<<"A">>, <<"B">>}

\* The servers the callers pass in: a command with no environment given,
\* enabled for no app or for three; toggle enables and disables the fourth.
McpConfigs == {JObj([command |-> JStr(<<"npx">>), env |-> JNull])}

McpAppSets == {{}, {"claude", "gemini", "opencode"}}

ToggledApps == {"codex"}

McpInputs == [id : McpIds, server_config : McpConfigs, apps : McpAppSets]

\* Prompt "b" is as old as prompt "a" or younger.
PromptInputs ==
    {p \in [id : PromptIds \ {"imp"}, content : PromptTexts, enabled : BOOLEAN,
            created_at : Times] : p.id = "a" => p.created_at = 1}

\* What a prompt file holds before the first call: nothing, blanks, or the
\* user's own text.
PromptFiles == {Absent, TextFile(<<" ">>), TextFile(<<"own">>)}

SeedPrompt == [id |-> "a", content |-> <<"S">>, enabled |-> TRUE, created_at |-> 1]

InitEntities ==
    /\ store = EmptyStore
    /\ cache = NoCache
    /\ last = Last("init", "", NoId, NoCfg, "Ok", "", <<>>)
    /\ nfaults = 0
    /\ focus = "claude"
    /\ added = {}
    /\ vin = [app |-> "claude", cfg |-> EmptyObj]
    /\ vout = "idle"
    /\ svc \in {"prompt", "mcp"}
    /\ mcp = EmptyMcp
    /\ aw = AwIdle
    /\ race = RaceIdle
    /\ PathsIdle
    /\ thr = ThrIdle
    /\ \/ /\ svc = "prompt"
          /\ prompts = [a \in Apps |->
                          IF a = focus THEN EmptyPrompts[a]
                          ELSE save_prompt(EmptyPrompts, a, SeedPrompt)[a]]
          /\ \E f \in PromptFiles :
                fs = [p \in Paths |->
                        IF p = get_prompt_path(focus) THEN f
                        ELSE IF p \in {get_prompt_path(a) : a \in Apps}
                             THEN TextFile(SeedPrompt.content)
                             ELSE Absent]
       \/ /\ svc = "mcp"
          /\ prompts = EmptyPrompts
          /\ fs = [p \in Paths |-> Absent]

\* The prompts of app that are enabled.
EnabledPrompts(tbl, app) == {i \in PromptIds : tbl[app][i].present /\ tbl[app][i].enabled}

\* One call of the prompt service: statements 1..k-1 take effect, statement
\* k fails.  last.cfg records the prompts that were enabled before the call.
prompt_step(op, id, calls) ==
    \E call \in calls :
      \E k \in StopPoints(call.effs, nfaults) :
        \E S1 \in {RunTo(Here, call.effs, k)} :
            /\ prompts' = S1.prompts
            /\ fs' = S1.fs
            /\ last' = Last(op, focus, id, EnabledPrompts(prompts, focus),
                            IF k <= Len(call.effs) THEN ErrorOf(call.effs[k]) ELSE call.res,
                            "", S1.writes)
            /\ nfaults' = IF k <= Len(call.effs) THEN nfaults + 1 ELSE nfaults
            /\ UNCHANGED <<store, cache, focus, added, vin, vout, mcp, svc, aw, race,
                           thr, environ, resolved>>

prompt_add ==
    /\ svc = "prompt"
    /\ \E p \in PromptInputs :
          prompt_step("add", p.id, {prompt_add_call(Here, focus, p, tie) : tie \in IdOrders})

prompt_update ==
    /\ svc = "prompt"
    /\ \E p \in PromptInputs :
          prompt_step("update", p.id, {prompt_update_call(Here, focus, p, tie) : tie \in IdOrders})

prompt_remove ==
    /\ svc = "prompt"
    /\ \E id \in PromptIds :
          prompt_step("remove", id, {prompt_remove_call(Here, focus, id, tie) : tie \in IdOrders})

prompt_enable ==
    /\ svc = "prompt"
    /\ \E id \in PromptIds :
          prompt_step("enable", id, {prompt_enable_call(Here, focus, id, tie) : tie \in IdOrders})

prompt_disable ==
    /\ svc = "prompt"
    /\ \E id \in PromptIds :
          prompt_step("disable", id, {prompt_disable_call(Here, focus, id, tie) : tie \in IdOrders})

\* The clock has moved on since an earlier import: the id is a new one.
prompt_import ==
    /\ svc = "prompt"
    /\ ~prompts[focus]["imp"].present
    /\ \E now \in {2} :
          prompt_step("import", "imp",
                      {prompt_import_call(Here, focus, now, tie) : tie \in IdOrders})

\* One call of the MCP service: statements 1..k-1 take effect, statement k
\* fails.
mcp_step_in(op, app, id, arg, call) ==
    \E k \in StopPoints(call.effs, nfaults) :
      \E S1 \in {RunTo(Here, call.effs, k)} :
          /\ mcp' = S1.mcp
          /\ fs' = S1.fs
          /\ last' = Last(op, app, id, arg,
                          IF k <= Len(call.effs) THEN ErrorOf(call.effs[k]) ELSE call.res,
                          "", S1.writes)
          /\ nfaults' = IF k <= Len(call.effs) /\ call.effs[k].e # "panic"
                        THEN nfaults + 1 ELSE nfaults
          /\ UNCHANGED <<store, cache, focus, added, vin, vout, prompts, svc, aw, race,
                         thr, environ, resolved>>

mcp_step(op, app, id, call) == mcp_step_in(op, app, id, NoCfg, call)

mcp_add ==
    /\ svc = "mcp"
    /\ \E server \in McpInputs : mcp_step("add", "", server.id, mcp_add_call(Here, server))

mcp_update ==
    /\ svc = "mcp"
    /\ \E server \in McpInputs :
          mcp_step("update", "", server.id, mcp_update_call(Here, server))

mcp_remove ==
    /\ svc = "mcp"
    /\ \E id \in McpIds : mcp_step("remove", "", id, mcp_remove_call(Here, id))

mcp_toggle ==
    /\ svc = "mcp"
    /\ \E id \in McpIds, app \in ToggledApps, enable \in BOOLEAN :
          mcp_step("toggle", app, id, mcp_toggle_call(Here, id, app, enable))

NextEntities ==
    \/ prompt_add \/ prompt_update \/ prompt_remove
    \/ prompt_enable \/ prompt_disable \/ prompt_import
    \/ mcp_add \/ mcp_update \/ mcp_remove \/ mcp_toggle

SpecEntities == InitEntities /\ [][NextEntities]_vars

-----------------------------------------------------------------------------
\* atomic_write on its own: calls one after the other on one target, each of
\* which may fail at any of its statements.

InitAtomic ==
    /\ store = EmptyStore
    /\ fs = [p \in Paths |-> Absent]
    /\ cache = NoCache
    /\ last = Last("init", "", NoId, NoCfg, "Ok", "", <<>>)
    /\ nfaults = 0
    /\ focus = "claude"
    /\ added = {}
    /\ vin = [app |-> "claude", cfg |-> EmptyObj]
    /\ vout = "idle"
    /\ prompts = EmptyPrompts
    /\ mcp = EmptyMcp
    /\ svc = "atomic"
    /\ \E c \in {Absent} \cup {TextFile(t) : t \in Contents} :
          aw = AwCall("idle", c, Absent, <<>>, c)
    /\ race = RaceIdle
    /\ PathsIdle
    /\ thr = ThrIdle

AwStep(a) ==
    /\ aw' = a
    /\ UNCHANGED <<store, fs, cache, last, nfaults, focus, added, vin, vout,
                   prompts, mcp, svc, race, thr, environ, resolved>>

\* atomic_write(path, data) is called.
aw_begin ==
    /\ aw.pc \in {"idle", "done", "failed"}
    /\ \E d \in Datas : AwStep(AwCall("start", aw.target, Absent, d, aw.target))

aw_create == aw.pc = "start" /\ AwStep(File_create(aw))

aw_write_all ==
    /\ aw.pc = "created"
    /\ Len(aw.tmp.v) < Len(aw.data)
    /\ AwStep(write_all(aw))

aw_flush ==
    /\ aw.pc = "created"
    /\ aw.tmp.v = aw.data
    /\ AwStep(flush(aw))

aw_rename == aw.pc = "flushed" /\ AwStep(rename(aw))

\* create_dir_all, File::create, write_all, flush or rename fails.
aw_fail ==
    /\ aw.pc \in {"start", "created", "flushed"}
    /\ AwStep(aw_error(aw))

NextAtomic == aw_begin \/ aw_create \/ aw_write_all \/ aw_flush \/ aw_rename \/ aw_fail

SpecAtomic == InitAtomic /\ [][NextAtomic]_vars

-----------------------------------------------------------------------------
\* Two processes call atomic_write once each on one target, their statements
\* interleaved in every order; each call may fail at any statement.

InitRace ==
    /\ store = EmptyStore
    /\ fs = [p \in Paths |-> Absent]
    /\ cache = NoCache
    /\ last = Last("init", "", NoId, NoCfg, "Ok", "", <<>>)
    /\ nfaults = 0
    /\ focus = "claude"
    /\ added = {}
    /\ vin = [app |-> "claude", cfg |-> EmptyObj]
    /\ vout = "idle"
    /\ prompts = EmptyPrompts
    /\ mcp = EmptyMcp
    /\ svc = "race"
    /\ aw = AwIdle
    /\ PathsIdle
    /\ thr = ThrIdle
    /\ \E found \in {Absent, TextFile(OldData)} :
          race = IF found = Absent THEN RaceIdle
                 ELSE [RaceIdle EXCEPT !.dir[TargetName] = OldInode,
                                       !.ino[OldInode] = OldData,
                                       !.old = found]

RaceStep(r) ==
    /\ race' = r
    /\ UNCHANGED <<store, fs, cache, last, nfaults, focus, added, vin, vout,
                   prompts, mcp, svc, aw, thr, environ, resolved>>

race_begin ==
    \E i \in Writers, ts \in Stamps :
        race.w[i].pc = "idle" /\ RaceStep(race_stamp(race, i, ts))

race_create_tmp ==
    \E i \in Writers : race.w[i].pc = "start" /\ RaceStep(race_create(race, i))

race_write ==
    \E i \in Writers :
        /\ race.w[i].pc = "created"
        /\ race.w[i].off < Len(RaceData[i])
        /\ RaceStep(race_write_all(race, i))

race_close ==
    \E i \in Writers :
        /\ race.w[i].pc = "created"
        /\ race.w[i].off = Len(RaceData[i])
        /\ RaceStep(race_flush(race, i))

race_replace ==
    \E i \in Writers : race.w[i].pc = "flushed" /\ RaceStep(race_rename(race, i))

race_fail ==
    \E i \in Writers :
        /\ race.w[i].pc \in {"start", "created", "flushed"}
        /\ RaceStep(race_error(race, i))

NextRace ==
    \/ race_begin \/ race_create_tmp \/ race_write
    \/ race_close \/ race_replace \/ race_fail

SpecRace == InitRace /\ [][NextRace]_vars

-----------------------------------------------------------------------------
\* Two threads of one process share the Database: one calls
\* set_current_provider, the other get_current_provider, their statements
\* interleaved in every order the mutex allows.

LockRow(i) == [id |-> i, settings_config |-> EmptyObj]

LockStore == save_provider(save_provider(EmptyStore, "claude", LockRow("p1")),
                           "claude", LockRow("p2"))

InitLock ==
    /\ \E id \in Ids \cup {NoId} :
          store = IF id = NoId THEN LockStore ELSE mark_current(LockStore, "claude", id)
    /\ fs = [p \in Paths |-> Absent]
    /\ cache = NoCache
    /\ last = Last("init", "", NoId, NoCfg, "Ok", "", <<>>)
    /\ nfaults = 0
    /\ focus = "claude"
    /\ added = {}
    /\ vin = [app |-> "claude", cfg |-> EmptyObj]
    /\ vout = "idle"
    /\ prompts = EmptyPrompts
    /\ mcp = EmptyMcp
    /\ svc = "lock"
    /\ aw = AwIdle
    /\ race = RaceIdle
    /\ PathsIdle
    /\ thr = ThrIdle

LockStep(T, db, faults) ==
    /\ thr' = T
    /\ store' = db
    /\ nfaults' = faults
    /\ UNCHANGED <<fs, cache, last, focus, added, vin, vout,
                   prompts, mcp, svc, aw, race, environ, resolved>>

sw_call ==
    \E id \in Ids :
        /\ thr.sw.pc = "idle"
        /\ LockStep([thr EXCEPT !.sw = [pc |-> "waiting", id |-> id]], store, nfaults)

sw_lock ==
    /\ thr.sw.pc = "waiting"
    /\ thr.lock = "free"
    /\ LockStep([lock_conn(thr, "sw") EXCEPT !.sw.pc = "locked"], store, nfaults)

sw_clear ==
    /\ thr.sw.pc = "locked"
    /\ LockStep(scp_cleared(thr), clear_current(store, focus), nfaults)

sw_mark ==
    /\ thr.sw.pc = "cleared"
    /\ LockStep([thr EXCEPT !.sw.pc = "marked"],
                mark_current(store, focus, thr.sw.id), nfaults)

sw_return ==
    /\ thr.sw.pc = "marked"
    /\ LockStep([drop_guard(thr) EXCEPT !.sw = ThrIdle.sw], store, nfaults)

\* A statement of set_current_provider fails: ? returns the error and the
\* guard is dropped.
sw_fail ==
    /\ thr.sw.pc \in {"locked", "cleared"}
    /\ nfaults < MaxFaults
    /\ LockStep([drop_guard(thr) EXCEPT !.sw = ThrIdle.sw], store, nfaults + 1)

rd_call ==
    /\ thr.rd.pc = "idle"
    /\ LockStep([thr EXCEPT !.rd.pc = "waiting"], store, nfaults)

rd_lock ==
    /\ thr.rd.pc = "waiting"
    /\ thr.lock = "free"
    /\ LockStep([lock_conn(thr, "rd") EXCEPT !.rd.pc = "locked"], store, nfaults)

rd_query ==
    /\ thr.rd.pc = "locked"
    /\ LockStep(gcp_query(thr, store, focus), store, nfaults)

rd_return ==
    /\ thr.rd.pc = "queried"
    /\ LockStep([drop_guard(thr) EXCEPT !.rd.pc = "idle"], store, nfaults)

NextLock ==
    \/ sw_call \/ sw_lock \/ sw_clear \/ sw_mark \/ sw_return \/ sw_fail
    \/ rd_call \/ rd_lock \/ rd_query \/ rd_return

SpecLock == InitLock /\ [][NextLock]_vars

-----------------------------------------------------------------------------
\* Live sync of Codex: the store holds one provider whose config and auth
\* are absent, null, a number or a text, as far as validation lets it in; the
\* two live files exist or not; switch syncs the provider.

CodexFields == {JNull, JNum, JStr(<<>>), JStr(<<"api", "_key">>), JStr(<<"tok">>)}

CodexStored ==
    {cfg \in ObjectsOver({"config", "auth"}, CodexFields) : validate_codex_settings(cfg)}

FoundText == TextFile(<<"found">>)

InitCodex ==
    /\ \E cfg \in CodexStored :
          store = save_provider(EmptyStore, "codex", [id |-> "p1", settings_config |-> cfg])
    /\ \E found \in SUBSET {CodexConfig, CodexAuth} :
          fs = [p \in Paths |-> IF p \in found THEN FoundText ELSE Absent]
    /\ cache = NoCache
    /\ last = Last("init", "", NoId, NoCfg, "Ok", "", <<>>)
    /\ nfaults = 0
    /\ focus = "codex"
    /\ added = {}
    /\ vin = [app |-> "claude", cfg |-> EmptyObj]
    /\ vout = "idle"
    /\ ExtIdle("provider")

SpecCodex == InitCodex /\ [][switch]_vars

-----------------------------------------------------------------------------
\* Path resolution in one environment, on one disk: at most MaxSet variables
\* are set.

MaxSet == 2

EnvValues(name) ==
    IF name = "CCSWITCH_HOME"
    THEN {EnvStr(<<" ">>), EnvStr(<<" ", "/h", " ">>), NotUnicode}
    ELSE IF name = "HOME" THEN {EnvStr(<<"/w">>)}
    ELSE {EnvStr(<<"/o">>), NotUnicode}

\* dirs::home_dir() on a Unix build is the value of HOME when HOME is set.
HomeDirs(set, os) ==
    IF os # "windows" /\ "HOME" \in DOMAIN set THEN {JStr(set["HOME"].v)}
    ELSE {None, JStr(<<"/home/u">>)}

EnvironmentsOf(set) ==
    UNION {{[vars |-> [n \in EnvVars |-> IF n \in DOMAIN set THEN set[n] ELSE Unset],
             home |-> home, os |-> os] : home \in HomeDirs(set, os)} :
           os \in {"linux", "macos", "windows"}}

Environments ==
    UNION {EnvironmentsOf(set) :
        set \in UNION {{f \in [D -> UNION {EnvValues(n) : n \in EnvVars}] :
                            \A n \in D : f[n] \in EnvValues(n)} :
                        D \in {D \in SUBSET EnvVars : Cardinality(D) <= MaxSet}}}

Disks ==
    {[p \in Paths |-> IF p \in found THEN TextFile(<<"{", "}">>) ELSE Absent] :
        found \in SUBSET {ClaudeSettings, ClaudeLegacy}}

InitPaths ==
    /\ store = EmptyStore
    /\ fs \in Disks
    /\ cache = NoCache
    /\ last = Last("init", "", NoId, NoCfg, "Ok", "", <<>>)
    /\ nfaults = 0
    /\ focus = "claude"
    /\ added = {}
    /\ vin = [app |-> "claude", cfg |-> EmptyObj]
    /\ vout = "idle"
    /\ prompts = EmptyPrompts
    /\ mcp = EmptyMcp
    /\ svc = "paths"
    /\ aw = AwIdle
    /\ race = RaceIdle
    /\ thr = ThrIdle
    /\ environ \in Environments
    /\ resolved = NotResolved

Resolve(what, app, path) ==
    /\ resolved' = [what |-> what, app |-> app, path |-> path]
    /\ UNCHANGED <<store, fs, cache, last, nfaults, focus, added, vin, vout,
                   prompts, mcp, svc, aw, race, thr, environ>>

resolve_config_dir == \E app \in Apps : Resolve("dir", app, get_config_dir(environ, app))

resolve_app_config_dir == Resolve("tool", "", get_app_config_dir(environ))

resolve_settings_path ==
    \E app \in SettingsApps : Resolve("settings", app, get_settings_path(environ, fs, app))

NextPaths == resolve_config_dir \/ resolve_app_config_dir \/ resolve_settings_path

SpecPaths == InitPaths /\ [][NextPaths]_vars

-----------------------------------------------------------------------------
\* MCP sync and provider sync on the files they share.  The store holds one
\* provider of the app in focus and the table two servers; the MCP config file
\* of the app holds what an earlier run or the user left there.

SyncConfigs(app) ==
    CASE app = "claude" -> {ClaudeToken}
      [] app = "codex" -> {CodexBoth, CodexAuthOnly}
      [] app = "gemini" -> {GeminiOne}
      [] app = "opencode" -> {OpenCodeOne}

SyncServer(id, apps) ==
    [id |-> id, server_config |-> JObj([command |-> JStr(<<"npx">>)]), apps |-> apps]

OtherKeys == [theme |-> JStr(<<"dark">>)]

OldServers == JObj([m2 |-> JObj([command |-> JStr(<<"old">>)])])

\* Nothing, a text that does not parse, a document with a key of its own, the
\* same with servers, and (JSON) a document that is not an object.
FoundMcp(app) ==
    IF app = "codex"
    THEN {Absent, TextFile(<<"model", "=">>),
          TextFile(toml_to_string_pretty(OtherKeys)),
          TextFile(toml_to_string_pretty(("mcp_servers" :> OldServers) @@ OtherKeys))}
    ELSE {Absent, TextFile(<<"{", "\"", "theme">>),
          JsonFile(JObj(OtherKeys)),
          JsonFile(JObj(("mcpServers" :> OldServers) @@ OtherKeys)),
          TextFile(<<"1">>)}

InitSync ==
    /\ focus \in Apps
    /\ \E cfg \in SyncConfigs(focus) :
          store = save_provider(EmptyStore, focus, [id |-> "p1", settings_config |-> cfg])
    /\ \E found \in FoundMcp(focus) :
          fs = [p \in Paths |-> IF p = get_mcp_path(focus) THEN found ELSE Absent]
    /\ \E apps \in SUBSET Apps :
          mcp = save_mcp_server(save_mcp_server(EmptyMcp, SyncServer("m1", apps)),
                                SyncServer("m2", {"codex", "gemini"}))
    /\ cache = NoCache
    /\ last = Last("init", "", NoId, NoCfg, "Ok", "", <<>>)
    /\ nfaults = 0
    /\ added = {}
    /\ vin = [app |-> "claude", cfg |-> EmptyObj]
    /\ vout = "idle"
    /\ prompts = EmptyPrompts
    /\ svc = "sync"
    /\ aw = AwIdle
    /\ race = RaceIdle
    /\ PathsIdle
    /\ thr = ThrIdle

\* McpService::toggle(id, app, enable) on the app in focus
\* The enable argument of a toggle, as the history keeps it.
EnableArg(enable) == JStr(IF enable THEN <<"true">> ELSE <<"false">>)

sync_toggle ==
    \E enable \in BOOLEAN :
        mcp_step_in("toggle", focus, "m1", EnableArg(enable),
                    mcp_toggle_call(Here, "m1", focus, enable))

\* McpService::sync_to_app(app)
sync_app == mcp_step("sync", focus, NoId, Call(mcp_sync_to_app(Here, focus), "Ok"))

\* ProviderService::switch and ::update of the one provider
sync_switch == switch_step(focus, "p1")

sync_update == \E cfg \in SyncConfigs(focus) : update_step(focus, [id |-> "p1", settings_config |-> cfg])

NextSync == sync_toggle \/ sync_app \/ sync_switch \/ sync_update

SpecSync == InitSync /\ [][NextSync]_vars

-----------------------------------------------------------------------------
\* ProviderService::find.  Ids, names and queries are texts of characters;
\* a row of the providers table carries the app, the id, the name and the
\* sort index the list is ordered by.

\* char::to_lowercase
lower_char(c) == IF c = "A" THEN "a" ELSE IF c = "B" THEN "b" ELSE c

\* str::to_lowercase
to_lowercase(text) == [i \in DOMAIN text |-> lower_char(text[i])]

\* str::starts_with
starts_with(text, prefix) ==
    /\ Len(prefix) <= Len(text)
    /\ SubSeq(text, 1, Len(prefix)) = prefix

\* get_all_providers: the rows of the app, ORDER BY sort_index ASC.
RECURSIVE providers_in_order(_)
providers_in_order(rows) ==
    IF rows = {} THEN <<>>
    ELSE LET first == CHOOSE r \in rows : \A o \in rows : r.sort_index <= o.sort_index
         IN  <<first>> \o providers_in_order(rows \ {first})

providers_values(rows, app) == providers_in_order({r \in rows : r.app = app})

\* Option<Provider>::None
NoProvider == [app |-> "", id |-> <<>>, name |-> <<>>, sort_index |-> 0]

\* The first element of the list that satisfies Test, or None.
FirstThat(list, Test(_)) ==
    IF \E i \in DOMAIN list : Test(list[i])
    THEN list[CHOOSE i \in DOMAIN list :
                 Test(list[i]) /\ \A j \in 1..(i - 1) : ~Test(list[j])]
    ELSE NoProvider

\* find that looks at the names before the ids.
find_names_first(rows, app, name_or_id) ==
    LET providers == providers_values(rows, app)
        name_lower == to_lowercase(name_or_id)
        by_id == FirstThat(providers, LAMBDA p : p.id = name_or_id)
        by_name == FirstThat(providers, LAMBDA p : to_lowercase(p.name) = name_lower)
        by_prefix == FirstThat(providers,
                               LAMBDA p : starts_with(to_lowercase(p.name), name_lower))
    IN  IF by_name # NoProvider THEN by_name
        ELSE IF by_id # NoProvider THEN by_id
        ELSE by_prefix

\* ProviderService::find
find(rows, app, name_or_id) ==
    LET providers == providers_values(rows, app)
        name_lower == to_lowercase(name_or_id)
        by_id == FirstThat(providers, LAMBDA p : p.id = name_or_id)
        by_name == FirstThat(providers, LAMBDA p : to_lowercase(p.name) = name_lower)
        by_prefix == FirstThat(providers,
                               LAMBDA p : starts_with(to_lowercase(p.name), name_lower))
    IN  IF by_id # NoProvider THEN by_id
        ELSE IF by_name # NoProvider THEN by_name
        ELSE by_prefix

FindIds == {<<"a">>, <<"a", "b">>}

FindNames == {<<"a">>, <<"A", "b">>, <<"a", "b">>, <<"b", "A">>}

FindQueries == FindIds \cup FindNames \cup {<<>>, <<"A">>, <<"A", "B">>, <<"b">>}

FindRows(app, indexes) ==
    [app : {app}, id : FindIds, name : FindNames, sort_index : indexes]

\* At most two providers of Claude and at most one of Codex; an id is the
\* key of one row of an app, and the rows of an app differ in sort_index.
ClaudeTables ==
    {{}} \cup {{r} : r \in FindRows("claude", {1})}
         \cup UNION {{{r, o} : o \in {o \in FindRows("claude", {2}) : o.id # r.id}} :
                        r \in FindRows("claude", {1})}

CodexTables == {{}} \cup {{r} : r \in {r \in FindRows("codex", {1}) : r.id = <<"a">>}}

FindTables == {rows \cup others : rows \in ClaudeTables, others \in CodexTables}

InitFind ==
    /\ store = EmptyStore
    /\ fs = [p \in Paths |-> Absent]
    /\ cache = NoCache
    /\ last = Last("init", "", NoId, NoCfg, "Ok", "", <<>>)
    /\ nfaults = 0
    /\ focus \in {"claude", "codex"}
    /\ added = {}
    /\ vin \in [rows : FindTables, q : FindQueries]
    /\ vout = "pending"
    /\ ExtIdle("find")

find_step ==
    /\ svc = "find"
    /\ last.op = "init"
    /\ vout' = find(vin.rows, focus, vin.q)
    /\ last' = Last("find", focus, NoId, NoCfg, "Ok", "", <<>>)
    /\ UNCHANGED <<store, fs, cache, nfaults, focus, added, vin>>
    /\ UNCHANGED ext

SpecFind == InitFind /\ [][find_step]_vars

-----------------------------------------------------------------------------
\* The provider service on one app while every other app holds a provider
\* of the same id p1: stored, flagged, named by the overlay and written to
\* the live files of its app.

TheConfig(app) ==
    CASE app = "claude" -> ClaudeKey
      [] app = "codex" -> CodexBoth
      [] app = "gemini" -> GeminiTwo
      [] app = "opencode" -> OpenCodeOne

\* The statements that set up p1 as the current provider of app.
RECURSIVE Populate(_, _)
Populate(S, apps) ==
    IF apps = <<>> THEN S
    ELSE LET app == Head(apps)
             p == [id |-> "p1", settings_config |-> TheConfig(app)]
         IN  Populate(RunAll(S, <<SaveStmt(app, p), MarkStmt(app, "p1"),
                                  SettingsStmt(app, "p1")>>
                                    \o write_live_snapshot(S.fs, app, p)),
                      Tail(apps))

OtherApps(app) == SelectSeq(AppOrder, LAMBDA a : a # app)

InitApps ==
    /\ focus \in Apps
    /\ \E S1 \in {Populate([store |-> EmptyStore, fs |-> [p \in Paths |-> Absent],
                            cache |-> NoCache, writes |-> <<>>,
                            prompts |-> EmptyPrompts, mcp |-> EmptyMcp],
                           OtherApps(focus))} :
          /\ store = S1.store
          /\ fs = S1.fs
    /\ cache = NoCache
    /\ last = Last("init", "", NoId, NoCfg, "Ok", "", <<>>)
    /\ nfaults = 0
    /\ added = {}
    /\ vin = [app |-> "claude", cfg |-> EmptyObj]
    /\ vout = "idle"
    /\ ExtIdle("provider")

SpecApps == InitApps /\ [][Next]_vars

-----------------------------------------------------------------------------
\* Vocabulary of the properties

ExclusiveApps == {"claude", "codex", "gemini"}

\* The provider rows of app flagged is_current = 1.
Flagged(db, app) == {i \in Ids : db[app][i].present /\ db[app][i].is_current = 1}

\* The store's current-provider column of app, as one value.
StoreCurrent(db, app) == IF Flagged(db, app) = {} THEN NoId ELSE CHOOSE i \in Flagged(db, app) : TRUE

\* The id the settings file records for app.
OverlayFileId(files, app) ==
    IF files[SettingsPath].t = "settings" THEN files[SettingsPath].v[app] ELSE NoId

\* The id the cached settings document records for app.
OverlayCacheId(c, app) == IF c.t = "some" THEN c.v[app] ELSE NoId

\* The live files of app.
LiveFiles(app) ==
    CASE app = "claude" -> {ClaudeSettings, ClaudeLegacy}
      [] app = "codex" -> {CodexConfig, CodexAuth}
      [] app = "gemini" -> {GeminiSettings}
      [] app = "opencode" -> {}

\* The live files among the files a call wrote, in order.
LiveWrites(ws) == SelectSeq(ws, LAMBDA w : w \in LivePaths)

-----------------------------------------------------------------------------
\* C1: in every reachable state, whatever calls ran and wherever one of them
\* stopped between two store statements, each exclusive app has at most one
\* provider row flagged is_current = 1.
C1_AtMostOneCurrent ==
    \A a \in ExclusiveApps : Cardinality(Flagged(store, a)) <= 1

\* A switch from one current provider to another one has run.
C1_Witness ==
    /\ last.op = "switch" /\ last.res = "Ok" /\ last.app \in ExclusiveApps
    /\ get_all_providers(store, last.app) = Ids
    /\ Flagged(store, last.app) = {last.id}

\* current on the state (db, files, c)
CurrentOf(db, files, c, app) ==
    current([store |-> db, fs |-> files, cache |-> c, writes |-> <<>>], app)

\* settings_config has a string under key.
HasText(cfg, key) ==
    /\ cfg.t = "obj"
    /\ key \in DOMAIN cfg.v
    /\ cfg.v[key].t = "str"

\* The step is a successful add of the first provider of an exclusive app.
FirstAdd ==
    /\ last'.op = "add" /\ last'.res = "Ok"
    /\ last'.app \in ExclusiveApps
    /\ get_all_providers(store, last'.app) = {}

\* The added provider is current in the store, the settings file and the cache.
AddedIsCurrent ==
    /\ StoreCurrent(store', last'.app) = last'.id
    /\ OverlayFileId(fs', last'.app) = last'.id
    /\ OverlayCacheId(cache', last'.app) = last'.id

\* C2 as stated: a successful add of the first provider of an exclusive app
\* with no providers makes it current in the store and the overlay and
\* writes exactly one live file.
C2_OneFileWrite ==
    [][FirstAdd => (AddedIsCurrent /\ Len(LiveWrites(last'.writes)) = 1)]_vars

\* C2 as amended: a successful add of the first provider of an exclusive app
\* with no providers makes it current in the store and the overlay and runs
\* one live sync, which writes one live file for Claude and Gemini and, for
\* Codex, config.toml when settings_config.config is a string and then
\* auth.toml when settings_config.auth is a string (one or two writes).
C2_OneLiveSync ==
    [][FirstAdd =>
        /\ AddedIsCurrent
        /\ LET lw == LiveWrites(last'.writes)
           IN  IF last'.app = "codex"
               THEN /\ lw = (IF HasText(last'.cfg, "config") THEN <<CodexConfig>> ELSE <<>>)
                             \o (IF HasText(last'.cfg, "auth") THEN <<CodexAuth>> ELSE <<>>)
                    /\ Len(lw) \in {1, 2}
               ELSE Len(lw) = 1 /\ lw[1] \in LiveFiles(last'.app)]_vars

\* The first Codex provider, with both blobs, was added: two live files written.
C2_Witness ==
    /\ last.op = "add" /\ last.res = "Ok" /\ last.app = "codex"
    /\ get_all_providers(store, "codex") = {last.id}
    /\ StoreCurrent(store, "codex") = last.id
    /\ LiveWrites(last.writes) = <<CodexConfig, CodexAuth>>

\* C3 as stated, for runs in which no statement has failed: a successful add
\* of a new provider to an exclusive app to which a provider was added before
\* and which stores a provider changes neither current(app) nor a live file.
C3_AddKeepsCurrent ==
    [][(/\ last'.op = "add" /\ last'.res = "Ok" /\ nfaults' = 0
        /\ last'.app \in ExclusiveApps
        /\ last'.app \in added
        /\ get_all_providers(store, last'.app) # {}
        /\ last'.id \notin get_all_providers(store, last'.app))
       => (/\ CurrentOf(store', fs', cache', last'.app) = CurrentOf(store, fs, cache, last'.app)
           /\ \A f \in LiveFiles(last'.app) : fs'[f] = fs[f])]_vars

\* C4 as stated, for runs in which no statement has failed: when an
\* exclusive app has a current provider, a successful add, update or delete
\* changes neither current(app) nor the store's current-provider column.
C4_OnlySwitchChangesCurrent ==
    [][(/\ last'.op \in {"add", "update", "delete"} /\ last'.res = "Ok" /\ nfaults' = 0
        /\ last'.app \in ExclusiveApps
        /\ StoreCurrent(store, last'.app) # NoId
        /\ CurrentOf(store, fs, cache, last'.app) # "")
       => (/\ CurrentOf(store', fs', cache', last'.app) = CurrentOf(store, fs, cache, last'.app)
           /\ StoreCurrent(store', last'.app) = StoreCurrent(store, last'.app))]_vars

\* C5: switch(app, id) with an id the store does not hold for app fails
\* with ProviderNotFound and changes nothing: the store (its current flags
\* included), the settings file and cache, and every live file are as before.
C5_SwitchUnknownId ==
    [][(last'.op = "switch" /\ last'.id \notin get_all_providers(store, last'.app))
       => (/\ last'.res = "ProviderNotFound"
           /\ store' = store
           /\ fs' = fs
           /\ cache' = cache
           /\ last'.writes = <<>>)]_vars

\* A switch to an unknown id was refused while another provider is current.
C5_Witness ==
    /\ last.op = "switch" /\ last.res = "ProviderNotFound"
    /\ last.app \in ExclusiveApps
    /\ StoreCurrent(store, last.app) \in Ids \ {last.id}
    /\ OverlayFileId(fs, last.app) = StoreCurrent(store, last.app)
    /\ exists(fs, GeminiSettings) \/ exists(fs, CodexAuth) \/ exists(fs, ClaudeSettings)

\* C6: delete(app, id) on an exclusive app with id = current(app) fails with
\* an error and the store is unchanged: the provider is still there with the
\* same contents.
C6_DeleteCurrentRefused ==
    [][(/\ last'.op = "delete"
        /\ last'.app \in ExclusiveApps
        /\ last'.id = CurrentOf(store, fs, cache, last'.app))
       => (/\ last'.res # "Ok"
           /\ store'[last'.app][last'.id].present
           /\ store' = store)]_vars

\* The delete of the current provider was refused.
C6_Witness ==
    /\ last.op = "delete" /\ last.res = "Message"
    /\ last.app \in ExclusiveApps
    /\ last.id = CurrentOf(store, fs, cache, last.app)
    /\ store[last.app][last.id].present

\* The value the two-tier read is to return: the overlay's id when the store
\* holds it for app, else the id flagged in the store, else "".
TwoTier(overlayId, db, app) ==
    IF overlayId # NoId /\ db[app][overlayId].present THEN overlayId
    ELSE IF Flagged(db, app) # {} THEN CHOOSE i \in Flagged(db, app) : TRUE
    ELSE ""

\* C7: current(app) of an exclusive app returns the overlay's cached id
\* exactly when the store holds that id for app, and otherwise the id
\* flagged current in the store, or "" when none is flagged.
C7_CurrentTwoTier ==
    (last.op = "current" /\ last.app \in ExclusiveApps)
    => /\ cache.t = "some"
       /\ last.ret = TwoTier(OverlayCacheId(cache, last.app), store, last.app)
       /\ (last.ret = OverlayCacheId(cache, last.app)
              <=> (/\ OverlayCacheId(cache, last.app) # NoId
                   /\ store[last.app][OverlayCacheId(cache, last.app)].present))

\* current fell back to the store: the overlay names a provider the store
\* does not hold while another one is flagged.
C7_Witness ==
    /\ last.op = "current" /\ last.app \in ExclusiveApps
    /\ OverlayCacheId(cache, last.app) = "p1"
    /\ ~store[last.app]["p1"].present
    /\ Flagged(store, last.app) = {"p2"}
    /\ last.ret = "p2"

\* C8: current(OpenCode) returns "" in every reachable state.
C8_AdditiveCurrentEmpty ==
    (last.op = "current" /\ last.app = "opencode") => last.ret = ""

\* current returned "" for OpenCode although a switch flagged one of its rows.
C8_Witness ==
    /\ last.op = "current" /\ last.app = "opencode" /\ last.ret = ""
    /\ Flagged(store, "opencode") # {}

\* obj is an object whose key holds a non-empty string.
NonEmptyStringAt(obj, key) ==
    /\ obj.t = "obj"
    /\ key \in DOMAIN obj.v
    /\ obj.v[key].t = "str"
    /\ obj.v[key].v # <<>>

\* The text under key, "" when there is none.
TextAt(cfg, key) == IF HasText(cfg, key) THEN cfg.v[key].v ELSE <<>>

\* pat occurs in s.
HasSubstring(s, pat) ==
    \E i \in 0..(Len(s) - Len(pat)) : \A j \in 1..Len(pat) : s[i + j] = pat[j]

\* The validation rule of each app, as the claim words it.
Rule(app, cfg) ==
    CASE app = "claude" ->
            /\ cfg.t = "obj"
            /\ "env" \in DOMAIN cfg.v
            /\ \/ NonEmptyStringAt(cfg.v["env"], "ANTHROPIC_API_KEY")
               \/ NonEmptyStringAt(cfg.v["env"], "ANTHROPIC_AUTH_TOKEN")
      [] app = "codex" ->
            \/ HasSubstring(TextAt(cfg, "config"), <<"api", "_key">>)
            \/ HasSubstring(TextAt(cfg, "config"), <<"access", "_token">>)
            \/ TextAt(cfg, "auth") # <<>>
      [] app = "gemini" -> NonEmptyStringAt(cfg, "apiKey")
      [] app = "opencode" -> TRUE

\* C9: an add or update with a settings_config that fails the app's rule
\* fails with InvalidInput and touches nothing: the store, the settings file
\* and cache, and every live file are as before the call.
C9_InvalidLeavesState ==
    [][(last'.op \in {"add", "update"} /\ ~Rule(last'.app, last'.cfg))
       => (/\ last'.res = "InvalidInput"
           /\ store' = store
           /\ fs' = fs
           /\ cache' = cache
           /\ last'.writes = <<>>)]_vars

\* An update of the current provider with an invalid settings_config was
\* refused.
C9_Witness ==
    /\ last.op = "update" /\ last.res = "InvalidInput"
    /\ last.id \in Flagged(store, last.app)
    /\ store[last.app][last.id].settings_config # last.cfg

\* C10: validation accepts a settings_config exactly when the app's rule
\* holds.
C10_ValidationRule ==
    vout # "pending" =>
        /\ vout \in {"Ok", "InvalidInput"}
        /\ (vout = "Ok" <=> Rule(vin.app, vin.cfg))

\* A Codex config was accepted for an access_token inside its config text alone.
C10_Witness ==
    /\ vout = "Ok" /\ vin.app = "codex"
    /\ vin.cfg = JObj([config |-> JStr(<<"x", "access", "_token">>), auth |-> JStr(<<>>)])

\* C11 as stated, for runs in which no statement has failed: an add of a
\* provider whose id the store already holds for the app fails, and the stored
\* provider keeps its fields and its current flag.
C11_AddRejectsDuplicateId ==
    [][(/\ last'.op = "add" /\ nfaults' = 0
        /\ Rule(last'.app, last'.cfg)
        /\ last'.id \in get_all_providers(store, last'.app))
       => (/\ last'.res # "Ok"
           /\ store'[last'.app][last'.id] = store[last'.app][last'.id])]_vars

\* C20: while an atomic_write call has not renamed, and after it has failed
\* at any statement up to and including the rename, the target is what it
\* was before the call (or still absent): never truncated, never partly
\* written.
C20_FailedWriteKeepsTarget ==
    aw.pc \in {"start", "created", "flushed", "failed"} => aw.target = aw.before

\* A call failed after a part of the data had reached the temporary file,
\* over a target that holds other content.
C20_Witness ==
    /\ aw.pc = "failed"
    /\ aw.tmp.t = "text" /\ Len(aw.tmp.v) \in 1..(Len(aw.data) - 1)
    /\ aw.before = TextFile(<<"a", "b">>)
    /\ aw.target = aw.before

\* C13 as stated: whatever PromptService calls ran, each app has at most one
\* enabled prompt.
C13_AtMostOneEnabled ==
    \A a \in Apps : Cardinality(EnabledPrompts(prompts, a)) <= 1

\* C14: a successful enable(app, B) in a state where another prompt A of the
\* app is enabled leaves B enabled and A, like every other prompt of the app,
\* disabled, and leaves the prompts of the other apps as they were.
C14_EnableSwitchesPrompt ==
    [][(/\ last'.op = "enable" /\ last'.res = "Ok"
        /\ EnabledPrompts(prompts, last'.app) \ {last'.id} # {})
       => (/\ EnabledPrompts(prompts', last'.app) = {last'.id}
           /\ \A a \in Apps \ {last'.app} : prompts'[a] = prompts[a])]_vars

\* Prompt "b" was enabled while prompt "a" was, and the other apps hold an
\* enabled prompt "a" of their own.
C14_Witness ==
    /\ last.op = "enable" /\ last.res = "Ok" /\ last.id = "b"
    /\ last.cfg = {"a"}
    /\ prompts[last.app]["a"].present /\ ~prompts[last.app]["a"].enabled
    /\ prompts[last.app]["b"].enabled
    /\ \A x \in Apps \ {last.app} : prompts[x]["a"].enabled

\* The step is a successful add, update, remove, enable or disable of the
\* prompt service.
PromptCallDone ==
    /\ svc = "prompt"
    /\ last'.op \in {"add", "update", "remove", "enable", "disable"}
    /\ last'.res = "Ok"

\* C15 as stated, for runs in which no statement has failed: after every
\* successful add, update, remove, enable or disable the app's prompt file
\* holds the content of the enabled prompt; with no prompt enabled, a prompt
\* file that existed is empty and still exists.
C15_FileHoldsEnabledPrompt ==
    [][(PromptCallDone /\ nfaults' = 0)
       => LET path == get_prompt_path(last'.app)
              en == EnabledPrompts(prompts', last'.app)
          IN  /\ en # {} =>
                    \E i \in en : fs'[path] = TextFile(prompts'[last'.app][i].content)
              /\ (en = {} /\ exists(fs, path)) => fs'[path] = TextFile(<<>>)]_vars

\* The enabled prompts of app that come first in created_at order.
FirstEnabled(tbl, app) ==
    {i \in EnabledPrompts(tbl, app) :
        \A j \in EnabledPrompts(tbl, app) : tbl[app][i].created_at <= tbl[app][j].created_at}

\* The step ran sync_to_app: an update, enable or disable, an add of an
\* enabled prompt or a remove of an enabled prompt.
PromptSynced ==
    \/ last'.op \in {"update", "enable", "disable"}
    \/ last'.op = "add" /\ prompts'[last'.app][last'.id].enabled
    \/ last'.op = "remove" /\ prompts[last'.app][last'.id].enabled

\* C15 as amended: after every successful update, enable or disable, add of
\* an enabled prompt and remove of an enabled prompt, the app's prompt file
\* holds the content of the enabled prompt that comes first in created_at
\* order; with no prompt enabled, a prompt file that existed is empty and
\* still exists, and one that did not exist still does not.  A successful add
\* or remove of a disabled prompt leaves the prompt file as it was.
C15_SyncWritesEnabledPrompt ==
    [][PromptCallDone
       => LET path == get_prompt_path(last'.app)
              first == FirstEnabled(prompts', last'.app)
          IN  IF PromptSynced
              THEN /\ first # {} =>
                         \E i \in first : fs'[path] = TextFile(prompts'[last'.app][i].content)
                   /\ first = {} =>
                         fs'[path] = IF exists(fs, path) THEN TextFile(<<>>) ELSE Absent
              ELSE fs'[path] = fs[path]]_vars

\* The one enabled prompt was disabled and its file, which held its content,
\* was emptied.
C15_Witness ==
    /\ last.op = "disable" /\ last.res = "Ok"
    /\ last.cfg = {last.id}
    /\ EnabledPrompts(prompts, last.app) = {}
    /\ last.writes = <<get_prompt_path(last.app)>>
    /\ fs[get_prompt_path(last.app)] = TextFile(<<>>)

-----------------------------------------------------------------------------
LiveMcpIds(files, app) == DOMAIN read_app_mcp_config(files, app)

\* The ids of the stored servers enabled for app.
EnabledMcpIds(tbl, app) == {i \in McpIds : tbl[i].present /\ app \in tbl[i].apps}

-----------------------------------------------------------------------------
\* A call that returned Ok and wrote a live file of its app.
LiveSynced ==
    /\ last'.op \in {"add", "update", "switch"}
    /\ last'.res = "Ok"
    /\ last'.app \in ExclusiveApps
    /\ LiveWrites(last'.writes) # <<>>

\* live equals cfg on the fields the core owns: every key of the document
\* (Claude, Gemini); config and auth where cfg holds a text (Codex).
OwnedFieldsEqual(app, cfg, live) ==
    IF app = "codex"
    THEN \A key \in {"config", "auth"} :
            Get(cfg, key).t = "str" => Get(live, key) = Get(cfg, key)
    ELSE live = cfg

\* C17: after a successful live sync of a provider by add, update or
\* switch, read_live_settings returns that provider's settings_config on the
\* fields the core owns.
C17_LiveRoundTrip ==
    [][LiveSynced
       => OwnedFieldsEqual(last'.app,
                           store'[last'.app][last'.id].settings_config,
                           read_live_settings(fs', last'.app))]_vars

\* A switch wrote Claude's provider over the document found in the legacy
\* claude.json, and a switch wrote a Codex provider that has an auth text only.
C17_Witness ==
    /\ last.op = "switch"
    /\ last.res = "Ok"
    /\ \/ /\ last.app = "claude"
          /\ LiveWrites(last.writes) = <<ClaudeLegacy>>
          /\ read_live_settings(fs, "claude") = store["claude"][last.id].settings_config
       \/ /\ last.app = "codex"
          /\ LiveWrites(last.writes) = <<CodexAuth>>
          /\ Get(read_live_settings(fs, "codex"), "auth")
                = Get(store["codex"][last.id].settings_config, "auth")

\* C18: a live sync of Claude or Gemini keeps every key of the document
\* found in the live file that is not a key of the provider's
\* settings_config, with its value.
C18_LiveSyncKeepsOtherKeys ==
    [][(LiveSynced /\ last'.app \in {"claude", "gemini"})
       => LET path == LiveWrites(last'.writes)[1]
              old == read_json_file(fs, path)
              new == read_json_file(fs', path)
              cfg == store'[last'.app][last'.id].settings_config
          IN  old.t = "obj"
                => \A key \in DOMAIN old.v \ DOMAIN cfg.v :
                      Get(new, key) = old.v[key]]_vars

\* C19: a successful update of an exclusive app stores the provider; when
\* the provider was current the live file then holds its new settings_config,
\* and when it was not no live file changes.
C19_UpdateSyncsCurrentOnly ==
    [][(last'.op = "update" /\ last'.res = "Ok" /\ last'.app \in ExclusiveApps)
       => LET app == last'.app
              cfg == last'.cfg
          IN  /\ store'[app][last'.id].present
              /\ store'[app][last'.id].settings_config = cfg
              /\ IF current(Here, app) = last'.id
                 THEN OwnedFieldsEqual(app, cfg, read_live_settings(fs', app))
                 ELSE \A path \in LiveFiles(app) : fs'[path] = fs[path]]_vars

-----------------------------------------------------------------------------
\* The target holds the content found, or the whole data of one process.
TargetWhole ==
    FileAt(race, TargetName)
        \in {race.old} \cup {TextFile(RaceData[i]) : i \in Writers}

\* C21: while two processes run atomic_write on one target with temporary
\* files of different names, the target holds at every moment the content
\* found or the whole data of one of them.
C21_TargetNeverMixed ==
    (svc = "race" /\ race.w[1].ts # race.w[2].ts) => TargetWhole

\* Both calls ran interleaved to their end with temporary files of different
\* names: the target holds the data of process 2, the data of process 1 is
\* lost.
C21_Witness ==
    /\ svc = "race"
    /\ race.w[1].pc = "done" /\ race.w[2].pc = "done"
    /\ race.w[1].ts # race.w[2].ts
    /\ race.old = TextFile(OldData)
    /\ FileAt(race, TargetName) = TextFile(RaceData[2])

\* With one name for both temporary files the target holds a mix.
C21_SharedTmpMixes == svc = "race" /\ ~TargetWhole

-----------------------------------------------------------------------------
\* A switch got past the overlay and the store and failed writing a live
\* file.
SwitchSyncFailed ==
    /\ last'.op = "switch"
    /\ last'.res = "Io"
    /\ \E n \in DOMAIN last'.writes : last'.writes[n] = SettingsPath

\* The overlay, in file and cache, and the store's column record id for app.
RecordedCurrent(files, c, db, app, id) ==
    /\ OverlayFileId(files, app) = id
    /\ OverlayCacheId(c, app) = id
    /\ Flagged(db, app) = {id}

\* C22 as stated: when the live sync of switch(app, id) fails the call
\* returns the error, the overlay and the store's column record id, and every
\* live file of the app holds what it held before.
C22_FailedSyncKeepsLiveFile ==
    [][SwitchSyncFailed
       => /\ RecordedCurrent(fs', cache', store', last'.app, last'.id)
          /\ \A path \in LiveFiles(last'.app) : fs'[path] = fs[path]]_vars

\* The text of the provider's settings_config that goes to a Codex file.
CodexText(cfg, path) ==
    TextFile(Get(cfg, IF path = CodexConfig THEN "config" ELSE "auth").v)

\* C22 as amended: when the live sync of switch(app, id) fails the call
\* returns the error, the overlay and the store's column record id, and the
\* file whose write failed holds what it held before; for Codex, whose sync
\* writes two files, a config.toml written before the write of auth.toml
\* failed holds the provider's config.
C22_FailedSyncKeepsFailedFile ==
    [][SwitchSyncFailed
       => LET app == last'.app
              written == {LiveWrites(last'.writes)[n] : n \in DOMAIN LiveWrites(last'.writes)}
          IN  /\ RecordedCurrent(fs', cache', store', app, last'.id)
              /\ written \subseteq {CodexConfig}
              /\ \A path \in LiveFiles(app) :
                    fs'[path] = IF path \in written
                                THEN CodexText(store'[app][last'.id].settings_config, path)
                                ELSE fs[path]]_vars

\* A switch of Codex failed at auth.toml after it wrote config.toml.
C22_Witness ==
    /\ last.op = "switch"
    /\ last.res = "Io"
    /\ last.app = "codex"
    /\ last.writes = <<SettingsPath, CodexConfig>>
    /\ RecordedCurrent(fs, cache, store, "codex", last.id)
    /\ fs[CodexConfig] = CodexText(store["codex"][last.id].settings_config, CodexConfig)
    /\ fs[CodexAuth] # CodexText(store["codex"][last.id].settings_config, CodexAuth)

-----------------------------------------------------------------------------
\* The call before this one succeeded or failed writing a live file, and
\* this call is the same call again, ending the same way.
SyncEnded(l) ==
    \/ l.res = "Ok"
    \/ /\ l.res = "Io"
       /\ l.op = "switch" => \E n \in DOMAIN l.writes : l.writes[n] = SettingsPath

Retried(op) ==
    /\ last.op = op /\ last'.op = op
    /\ last'.app = last.app /\ last'.id = last.id /\ last'.cfg = last.cfg
    /\ last.app \in ExclusiveApps
    /\ SyncEnded(last) /\ SyncEnded(last')

\* The store and the overlay are what they were.
SameStoreAndOverlay ==
    /\ store' = store
    /\ fs'[SettingsPath] = fs[SettingsPath]
    /\ OverlayCacheId(cache', last'.app) = OverlayCacheId(cache, last'.app)

\* This call wrote the live files and they hold the provider.
LiveHoldsProvider ==
    /\ LiveWrites(last'.writes) # <<>>
    /\ OwnedFieldsEqual(last'.app, store'[last'.app][last'.id].settings_config,
                        read_live_settings(fs', last'.app))

SwitchRetry ==
    Retried("switch")
       => /\ SameStoreAndOverlay
          /\ last'.res = "Ok" => LiveHoldsProvider

UpdateRetry ==
    Retried("update")
       => /\ SameStoreAndOverlay
          /\ (last'.res = "Ok" /\ current(Here, last'.app) = last'.id)
                => LiveHoldsProvider

\* A switch to the provider current returns, in a run in which no statement
\* has failed.
SwitchToCurrent ==
    (/\ last'.op = "switch" /\ last'.res = "Ok" /\ nfaults' = 0
     /\ last'.app \in ExclusiveApps
     /\ current(Here, last'.app) = last'.id)
       => /\ SameStoreAndOverlay
          /\ LiveHoldsProvider

\* C23: switch(app, id) or update(app, p) run again after a run that
\* succeeded or failed in live sync leaves the store and the overlay as they
\* were and, when it succeeds, the live file holding the provider; a switch to
\* the provider that is current changes neither the store nor the overlay and
\* writes the live file.
C23_RetryIdempotent == [][SwitchRetry /\ UpdateRetry /\ SwitchToCurrent]_vars

-----------------------------------------------------------------------------
\* The statements of set_current_provider in switch_call.
ClearAt == 2
MarkAt == 3

\* This step is a switch of an exclusive app that stopped after the clear
\* statement of set_current_provider and before the set statement.
StoppedBetween ==
    /\ last'.op = "switch"
    /\ last'.app \in ExclusiveApps
    /\ \E call \in {switch_call(Here, last'.app, last'.id)} :
          /\ call.res = "Ok"
          /\ call.effs[ClearAt] = ClearStmt(last'.app)
          /\ call.effs[MarkAt] = MarkStmt(last'.app, last'.id)
          /\ last'.res = ErrorOf(call.effs[MarkAt])
          /\ \E S1 \in {RunTo(Here, call.effs, MarkAt)} :
                store' = S1.store /\ fs' = S1.fs /\ cache' = S1.cache

\* The state a stop between the two statements leaves, and switch(app, id)
\* issued again in it.
SwitchAgain ==
    /\ last.op = "switch" /\ last.res = "Database"
    /\ Flagged(store, last.app) = {}
    /\ last'.op = "switch" /\ last'.res = "Ok"
    /\ last'.app = last.app /\ last'.id = last.id

\* C24: when switch(app, id) stops between the clear statement and the
\* set statement of set_current_provider the store flags no provider of app
\* current, and switch(app, id) issued again ends with exactly id flagged.
C24_CrashBetweenRecovers ==
    [][/\ StoppedBetween => Flagged(store', last'.app) = {}
       /\ SwitchAgain => Flagged(store', last'.app) = {last'.id}]_vars

\* A switch away from the flagged provider stopped between the two
\* statements: the overlay names the new id and no row is flagged.
C24_Witness ==
    /\ last.op = "switch" /\ last.res = "Database"
    /\ last.app \in ExclusiveApps
    /\ last.writes = <<SettingsPath>>
    /\ OverlayFileId(fs, last.app) = last.id
    /\ Flagged(store, last.app) = {}
    /\ \E i \in Ids \ {last.id} : store[last.app][i].present
    /\ store[last.app][last.id].present

-----------------------------------------------------------------------------
\* C25 as stated: the lock is taken per statement, so that between the
\* clear statement and the set statement of set_current_provider the lock is
\* free for another caller.
C25_LockFreeBetween ==
    (svc = "lock" /\ thr.sw.pc = "cleared") => thr.lock = "free"

\* C25 as amended: set_current_provider holds the lock it took over both
\* statements, and no query of get_current_provider by a caller sharing the
\* Database runs between them.
C25_NoQueryBetween ==
    svc = "lock"
       => /\ thr.sw.pc \in {"locked", "cleared", "marked"} => thr.lock = "sw"
          /\ thr.rd.pc \in {"locked", "queried"} => thr.sw.pc \in {"idle", "waiting"}
          /\ ~thr.rd.mid

\* The reader, which saw a current provider before, called
\* get_current_provider while set_current_provider had cleared the flags and
\* not yet set one: it waits for the lock.
C25_Witness ==
    /\ svc = "lock"
    /\ thr.sw.pc = "cleared"
    /\ Flagged(store, "claude") = {}
    /\ thr.rd.pc = "waiting"
    /\ thr.rd.obs \in Ids

-----------------------------------------------------------------------------
\* C26: a successful add to the additive app writes the app's live
\* configuration, which then holds an entry for the added provider next to the
\* entries of the providers added before.
C26_AdditiveAddSyncs ==
    [][(last'.op = "add" /\ last'.res = "Ok" /\ is_additive_mode(last'.app))
       => /\ \E n \in DOMAIN last'.writes : last'.writes[n] = OpenCodeConfig
          /\ exists(fs', OpenCodeConfig)
          /\ LET live == read_json_file(fs', OpenCodeConfig)
             IN  \A id \in get_all_providers(store', last'.app) :
                    Contains(to_string_pretty(live), <<id>>)]_vars

-----------------------------------------------------------------------------
\* A switch of Codex reached its live sync.
CodexSyncRan ==
    /\ last'.op = "switch"
    /\ last'.app = "codex"
    /\ \E n \in DOMAIN last'.writes : last'.writes[n] = SettingsPath
    /\ last'.res \in {"Ok", "Io"}

CodexField(path) == IF path = CodexConfig THEN "config" ELSE "auth"

\* The sync wrote, of the two files, those whose field satisfies Wanted, each
\* with the text of its field; a file it did not write holds what it held; a
\* failed write of config.toml leaves auth.toml unwritten.
CodexSyncWrites(Wanted(_)) ==
    LET cfg == store'[last'.app][last'.id].settings_config
        written == {LiveWrites(last'.writes)[n] : n \in DOMAIN LiveWrites(last'.writes)}
    IN  /\ \A path \in written : Wanted(Get(cfg, CodexField(path)))
        /\ last'.res = "Ok"
              => \A path \in LiveFiles("codex") :
                    Wanted(Get(cfg, CodexField(path))) => path \in written
        /\ \A path \in LiveFiles("codex") :
              fs'[path] = IF path \in written
                          THEN TextFile(Get(cfg, CodexField(path)).v)
                          ELSE fs[path]
        /\ (Wanted(Get(cfg, "config")) /\ CodexConfig \notin written)
              => CodexAuth \notin written

FieldPresent(val) == val.t # "none"

FieldIsText(val) == val.t = "str"

\* C27 as stated: the live sync of Codex writes config.toml exactly when
\* settings_config.config is present and auth.toml exactly when
\* settings_config.auth is present, each verbatim; a file whose field is absent
\* keeps its content, and a failed write of config.toml prevents the write of
\* auth.toml.
C27_CodexWritesPresentFields ==
    [][CodexSyncRan => CodexSyncWrites(FieldPresent)]_vars

\* C27 as amended: the same with "present" read as "present and a string";
\* a field that is null or a number is skipped as an absent one is.
C27_CodexWritesTextFields ==
    [][CodexSyncRan => CodexSyncWrites(FieldIsText)]_vars

\* A switch synced a provider whose config is a number and whose auth is a
\* text: auth.toml holds the text and config.toml what was found.
C27_Witness ==
    /\ last.op = "switch" /\ last.res = "Ok" /\ last.app = "codex"
    /\ Get(store["codex"][last.id].settings_config, "config") = JNum
    /\ LiveWrites(last.writes) = <<CodexAuth>>
    /\ fs[CodexAuth] = TextFile(<<"tok">>)
    /\ fs[CodexConfig] = FoundText

-----------------------------------------------------------------------------
\* C28: a successful switch of the additive app to a stored id flags no
\* row of the store current, changes no field of the overlay and writes no
\* live file.
C28_AdditiveSwitchNoOp ==
    [][(/\ last'.op = "switch" /\ last'.res = "Ok"
        /\ is_additive_mode(last'.app)
        /\ last'.id \in get_all_providers(store, last'.app))
       => /\ \A i \in Ids : store'[last'.app][i].is_current = 0
          /\ AppSettings_load(fs') = AppSettings_load(fs)
          /\ get_settings([Here EXCEPT !.fs = fs', !.cache = cache']) = get_settings(Here)
          /\ LiveWrites(last'.writes) = <<>>]_vars

-----------------------------------------------------------------------------
\* The path resolution takes the override, the XDG directory on Linux, or
\* the default under the home directory, where IsSet says which variables
\* count as set.
OverrideThenDefault(IsSet(_)) ==
    /\ resolved.what = "dir"
          => resolved.path =
                IF IsSet(environ.vars[DirVar(resolved.app)])
                THEN environ.vars[DirVar(resolved.app)].v
                ELSE join(get_home_dir(environ), DirName(resolved.app))
    /\ resolved.what = "tool"
          => resolved.path =
                IF IsSet(environ.vars["CCSWITCH_CONFIG_DIR"])
                THEN environ.vars["CCSWITCH_CONFIG_DIR"].v
                ELSE IF environ.os = "linux" /\ IsSet(environ.vars["XDG_CONFIG_HOME"])
                THEN join(environ.vars["XDG_CONFIG_HOME"].v, "cc-switch")
                ELSE join(get_home_dir(environ), ".cc-switch")

VarIsSet(val) == val.t # "unset"

VarIsUnicode(val) == val.t = "ok"

\* C29: each app's config dir is the value of its CCSWITCH_<APP>_CONFIG_DIR
\* variable whenever that variable is set, otherwise <home>/.<app>; the tool's
\* dir is CCSWITCH_CONFIG_DIR if set, else on Linux XDG_CONFIG_HOME/cc-switch if
\* set, else <home>/.cc-switch.
C29_OverrideThenDefault == svc = "paths" => OverrideThenDefault(VarIsSet)

\* The same holds when only variables set to Unicode count as set.
OverrideWhenUnicode == svc = "paths" => OverrideThenDefault(VarIsUnicode)

\* C30: the primary settings path that was resolved is the one resolved
\* in the same environment on every disk.
C30_PathIgnoresDisk ==
    (svc = "paths" /\ resolved.what = "settings")
       => \A files \in Disks :
             get_settings_path(environ, files, resolved.app) = resolved.path

-----------------------------------------------------------------------------
\* C31: in every state add, update, switch and delete reach, whatever the
\* overlay holds, current(app) is "" or the id of a provider the store holds
\* for app.
C31_CurrentExists ==
    svc = "provider"
       => \A app \in Apps :
             CurrentOf(store, fs, cache, app) \in {""} \cup get_all_providers(store, app)

\* The overlay names p1, which the store does not hold, the store holds p2
\* unflagged, and current is "".
C31_Witness ==
    /\ svc = "provider"
    /\ focus \in ExclusiveApps
    /\ OverlayFileId(fs, focus) = "p1"
    /\ get_all_providers(store, focus) = {"p2"}
    /\ Flagged(store, focus) = {}
    /\ CurrentOf(store, fs, cache, focus) = ""

-----------------------------------------------------------------------------
\* Properties of MCP sync on a config file that exists.

McpPath == get_mcp_path(focus)

McpKey == IF focus = "codex" THEN "mcp_servers" ELSE "mcpServers"

\* The document the MCP config file of the app in focus holds, as the
\* format of the app parses it.
McpDocument(files) ==
    IF focus = "codex" THEN toml_parse(files[McpPath].v) ELSE from_str(files[McpPath].v)

Unparsable(files) == exists(files, McpPath) /\ McpDocument(files).t = "error"

WellFormed(files) == exists(files, McpPath) /\ McpDocument(files).t = "obj"

\* C32: sync_to_app for an app whose existing MCP config file cannot be
\* parsed returns an error and leaves the content of the file as it was.
C32_MalformedSurfaced ==
    [][(svc = "sync" /\ last'.op = "sync" /\ Unparsable(fs))
          => (last'.res # "Ok" /\ fs'[McpPath] = fs[McpPath])]_vars

McpSynced(files, tbl) ==
    /\ WellFormed(files)
    /\ DOMAIN enabled_servers(tbl, focus) # {}
    /\ read_app_mcp_config(files, focus) = enabled_servers(tbl, focus)

\* C39: once the servers enabled for Gemini or Codex are in the config file
\* of the app, a successful switch or update of a provider of the app leaves
\* them there.
C39_ProviderSyncKeepsMcp ==
    [][(svc = "sync" /\ focus \in {"gemini", "codex"}
          /\ last'.op \in {"switch", "update"} /\ last'.res = "Ok"
          /\ McpSynced(fs, mcp))
          => McpSynced(fs', mcp')]_vars

-----------------------------------------------------------------------------
\* Properties of find.

FindList == providers_values(vin.rows, focus)

IdMatches == {i \in DOMAIN FindList : FindList[i].id = vin.q}

NameMatches ==
    {i \in DOMAIN FindList : to_lowercase(FindList[i].name) = to_lowercase(vin.q)}

PrefixMatches ==
    {i \in DOMAIN FindList :
        starts_with(to_lowercase(FindList[i].name), to_lowercase(vin.q))}

Least(S) == CHOOSE i \in S : \A j \in S : i <= j

\* C35: find(app, q) is the provider of app whose id is q if there is one,
\* else the first in list order whose name equals q ignoring case, else the
\* first whose name starts with q ignoring case, else none; what it returns is
\* a provider of app.
C35_FindOrder ==
    (svc = "find" /\ last.op = "find")
       => /\ IdMatches # {} => vout = FindList[Least(IdMatches)]
          /\ (IdMatches = {} /\ NameMatches # {}) => vout = FindList[Least(NameMatches)]
          /\ (IdMatches = {} /\ NameMatches = {} /\ PrefixMatches # {})
                => vout = FindList[Least(PrefixMatches)]
          /\ (IdMatches = {} /\ PrefixMatches = {}) => vout = NoProvider
          /\ vout # NoProvider => (vout \in vin.rows /\ vout.app = focus)

\* The query is the id of the second provider of the list and, ignoring case,
\* the name of the first one, and a provider of the other app has it as its
\* id: find returns the second provider of the list.
C35_Witness ==
    /\ svc = "find"
    /\ last.op = "find"
    /\ Len(FindList) = 2
    /\ FindList[2].id = vin.q
    /\ to_lowercase(FindList[1].name) = to_lowercase(vin.q)
    /\ FindList[1].name # vin.q
    /\ \E r \in vin.rows : r.app # focus /\ r.name = vin.q
    /\ vout = FindList[2]

-----------------------------------------------------------------------------
\* Properties of delete on a provider that is not current.

\* The step is a delete of an id that is not current(app), or a delete on the
\* additive app.
DeleteOfOther ==
    /\ svc = "provider"
    /\ last'.op = "delete"
    /\ (is_additive_mode(last'.app) \/ CurrentOf(store, fs, cache, last'.app) # last'.id)

\* What such a delete leaves alone whatever row it removes: the other rows
\* of every app, the overlay and the files.
DeleteKeepsTheRest ==
    /\ \A app \in Apps, id \in Ids :
          (app # last'.app \/ id # last'.id) => store'[app][id] = store[app][id]
    /\ fs' = fs
    /\ \A app \in ExclusiveApps : OverlayCacheId(cache', app) \in
          {OverlayCacheId(cache, app), OverlayFileId(fs, app)}
    /\ cache # NoCache => cache' = cache

\* C36: a delete of an id that is not current(app) (any id on the additive app)
\* is not refused; when it succeeds the row is gone and every other provider,
\* the store's current flag of the app, the overlay and the live files are as
\* they were.
C36_DeleteKeepsFlag ==
    [][DeleteOfOther
          => /\ last'.res # "Message"
             /\ last'.res = "Ok"
                  => /\ ~store'[last'.app][last'.id].present
                     /\ DeleteKeepsTheRest
                     /\ Flagged(store', last'.app) = Flagged(store, last'.app)]_vars

\* C36 as the code has it: the flag of the app is unchanged unless the row
\* removed is the flagged one, and then no row of the app is flagged.
C36_DeleteKeepsOtherFlags ==
    [][DeleteOfOther
          => /\ last'.res # "Message"
             /\ last'.res = "Ok"
                  => /\ ~store'[last'.app][last'.id].present
                     /\ DeleteKeepsTheRest
                     /\ Flagged(store', last'.app)
                           = Flagged(store, last'.app) \ {last'.id}]_vars

\* delete of p1 has returned Ok: p2 is stored and current through the overlay,
\* and no row of the app is flagged.
C36_Witness ==
    /\ svc = "provider"
    /\ last.op = "delete" /\ last.res = "Ok" /\ last.id = "p1"
    /\ last.app \in ExclusiveApps
    /\ get_all_providers(store, last.app) = {"p2"}
    /\ Flagged(store, last.app) = {}
    /\ CurrentOf(store, fs, cache, last.app) = "p2"

-----------------------------------------------------------------------------
\* C38: in a behaviour that starts with an empty store, no settings file and
\* no live file and in which no call has failed in a statement, whenever
\* current(app) of Claude or Gemini is not "" the live settings file of the
\* app holds the settings_config of the provider current(app).
LiveIsCurrent ==
    (svc = "provider" /\ nfaults = 0 /\ focus \in {"claude", "gemini"}
        /\ CurrentOf(store, fs, cache, focus) # "")
       => read_live_settings(fs, focus)
             = store[focus][CurrentOf(store, fs, cache, focus)].settings_config

C38_LiveTracksCurrent == (fs[SettingsPath] = Absent) => []LiveIsCurrent

\* No call has failed; the second provider was switched to, after an update
\* of it, and the live file holds its settings_config and not the other's.
C38_Witness ==
    /\ svc = "provider" /\ nfaults = 0 /\ focus \in {"claude", "gemini"}
    /\ fs[SettingsPath] # SettingsFile(StaleSettings)
    /\ get_all_providers(store, focus) = {"p1", "p2"}
    /\ store[focus]["p1"].settings_config # store[focus]["p2"].settings_config
    /\ last.op = "update" /\ last.id = "p2" /\ last.res = "Ok"
    /\ CurrentOf(store, fs, cache, focus) = "p2"
    /\ read_live_settings(fs, focus) = store[focus]["p2"].settings_config

-----------------------------------------------------------------------------
\* Properties of the settings cache.

\* The step is an add or a switch whose save of the settings file succeeded.
SettingsSaved ==
    /\ svc = "provider"
    /\ last'.op \in {"add", "switch"}
    /\ Contains(last'.writes, <<SettingsPath>>)

\* The step is an add or a switch that failed in the save of the settings
\* file: an I/O error before the file was written.
SettingsSaveFailed ==
    /\ svc = "provider"
    /\ last'.op \in {"add", "switch"}
    /\ last'.res = "Io"
    /\ ~Contains(last'.writes, <<SettingsPath>>)

\* C40: after a successful update of the settings the cached document is the
\* document the settings file holds; after one that failed in the write the
\* file is as it was, the cache yields the document it yielded before, and
\* current of a later call does not see the id that was not saved.
C40_CacheMatchesFile ==
    [][/\ SettingsSaved => (cache'.t = "some" /\ fs'[SettingsPath] = SettingsFile(cache'.v))
       /\ SettingsSaveFailed
             => /\ fs'[SettingsPath] = fs[SettingsPath]
                /\ cache'.t = "some"
                /\ cache'.v = get_settings(Here)
                /\ cache.t = "some" => cache' = cache
                /\ \A app \in ExclusiveApps :
                      settings_get_current_provider(
                          [store |-> store', fs |-> fs', cache |-> cache', writes |-> <<>>], app)
                         = settings_get_current_provider(Here, app)]_vars

\* A switch to a stored provider failed in the save of the settings file: the
\* cache is filled and does not name the provider.
C40_Witness ==
    /\ svc = "provider"
    /\ last.op = "switch" /\ last.res = "Io" /\ last.writes = <<>>
    /\ last.app \in ExclusiveApps
    /\ last.id \in get_all_providers(store, last.app)
    /\ cache.t = "some"
    /\ OverlayCacheId(cache, last.app) # last.id
    /\ CurrentOf(store, fs, cache, last.app) # last.id

-----------------------------------------------------------------------------
\* Properties of a call on one app, seen from the other apps.

After == [store |-> store', fs |-> fs', cache |-> cache', writes |-> <<>>]

\* C37: an add, update, delete or switch on one app, whether it succeeds or
\* fails, leaves the stored providers, the flag, the overlay entry, current
\* and the live files of every other app as they were.
C37_OtherAppsUntouched ==
    [][(svc = "provider" /\ last'.op \in {"add", "update", "delete", "switch"})
          => \A other \in Apps \ {last'.app} :
                /\ store'[other] = store[other]
                /\ other \in ExclusiveApps
                      => /\ OverlayFileId(fs', other) = OverlayFileId(fs, other)
                         /\ settings_get_current_provider(After, other)
                               = settings_get_current_provider(Here, other)
                /\ current(After, other) = current(Here, other)
                /\ \A path \in LiveFiles(other) : fs'[path] = fs[path]]_vars

\* A switch to p1 of one app has succeeded while p1 of another app, with
\* another settings_config, is the current provider there.
C37_Witness ==
    /\ svc = "provider"
    /\ last.op = "switch" /\ last.res = "Ok" /\ last.id = "p1"
    /\ Flagged(store, last.app) = {"p1"}
    /\ \E other \in ExclusiveApps \ {last.app} :
          /\ Flagged(store, other) = {"p1"}
          /\ OverlayFileId(fs, other) = "p1"
          /\ CurrentOf(store, fs, cache, other) = "p1"
          /\ store[other]["p1"].settings_config # store[last.app]["p1"].settings_config
          /\ read_live_settings(fs, other) # read_live_settings(fs, last.app)

====
